---- MODULE Spec2Model ----
(***************************************************************************)
(* Swaad backend (src/backend/main.py): the menu-text pipeline             *)
(* (is_price_line, is_dish_name, normalize_dish_name,                      *)
(* extract_dishes_from_menu), the recipe matcher (find_recipe_by_name)     *)
(* and the profile aggregator (calculate_average_flavor_profile).          *)
(*                                                                         *)
(* A Python str is a sequence of characters; a character is a one-letter   *)
(* TLA+ string, except the two non-ASCII characters of the model, which    *)
(* are named by their code points ("U0130", "U0307").                      *)
(***************************************************************************)
EXTENDS Integers, Sequences, FiniteSets, TLC

VARIABLES
    \* extract_dishes_from_menu: its argument, locals and loop position
    menu_text, lines, pos, current_category, categorized_dishes, phase,
    emitted,      \* history: every (raw line, normalized name, category) that reached line 429
    \* normalize_dish_name: the argument and the results of successive calls
    nm_arg, nm_out,
    \* is_price_line / is_dish_name: the argument and the two returned values
    \* ("unset" before the call, then "True" or "False")
    cl_arg, cl_price, cl_dish,
    \* find_recipe_by_name: the dataset, the query and the returned outcome
    df, fr_name, fr_ret,
    \* calculate_average_flavor_profile: the argument and the result
    av_recipes, av_ret,
    \* the process and load_recipes: where the dataset file is, the state of the
    \* server, the global recipes_df (0 for None, else a DataFrame of objs), the
    \* DataFrames created so far, the number of pd.read_csv calls, and for each
    \* worker thread its position, its request, the DataFrame it has just read and
    \* what load_recipes returned to it
    csv_at, proc, recipes_df, objs, reads, pc, req, tmp, ret, calls,
    served,       \* history: the requests answered with a result
    reported,     \* history: a request failed on the missing file
    \* calculate_similarity: the two arguments and the result
    sm_profile1, sm_profile2, sm_ret,
    \* get_recommendations: the dataset, the request and the response
    rk_df, rk_request, rk_ret,
    \* the profile endpoints of one user: the dataset, the favorite_dishes and the
    \* flavor_profile of the user's row, and the outcome of the last request
    pf_df, pf_dishes, pf_profile, pf_ret,
    pf_before,    \* history: the user's row before the last request
    pf_calls      \* history: the number of requests so far

menuVars == <<menu_text, lines, pos, current_category, categorized_dishes, phase, emitted>>
normVars == <<nm_arg, nm_out>>
classVars == <<cl_arg, cl_price, cl_dish>>
findVars == <<df, fr_name, fr_ret>>
avgVars == <<av_recipes, av_ret>>
loadVars == <<csv_at, proc, recipes_df, objs, reads, pc, req, tmp, ret, calls, served, reported>>
simVars == <<sm_profile1, sm_profile2, sm_ret>>
rankVars == <<rk_df, rk_request, rk_ret>>
profVars == <<pf_df, pf_dishes, pf_profile, pf_ret, pf_before, pf_calls>>
restVars == <<loadVars, simVars, rankVars, profVars>>
vars == <<menuVars, normVars, classVars, findVars, avgVars, restVars>>

(***************************************************************************)
(* Characters                                                              *)
(***************************************************************************)
Chars(s) == [i \in 1..Len(s) |-> SubSeq(s, i, i)]

Range(f) == {f[i] : i \in DOMAIN f}

LowerSeq == Chars("abcdefghijklmnopqrstuvwxyz")
UpperSeq == Chars("ABCDEFGHIJKLMNOPQRSTUVWXYZ")
LowerLetters == Range(LowerSeq)
UpperLetters == Range(UpperSeq)
Digit == Range(Chars("0123456789"))
Punct == Range(Chars("!#$%&'()*+,-./:;<=>?@[]^_{|}~"))
\* U+0130 LATIN CAPITAL LETTER I WITH DOT ABOVE, U+0307 COMBINING DOT ABOVE
Alphabet == LowerLetters \cup UpperLetters \cup Digit \cup Punct
              \cup {" ", "\t", "\r", "\n", "U0130", "U0307"}

\* str.isspace(), the class \s of re and the characters str.strip()/str.split() remove
Space == {" ", "\t", "\r", "\n"}
\* the class \w of re on str patterns: alphanumerics and the underscore
Word == LowerLetters \cup UpperLetters \cup Digit \cup {"_", "U0130"}
\* the class . of re: anything but a newline
Dot == Alphabet \ {"\n"}

IndexIn(seq, c) == CHOOSE i \in DOMAIN seq : seq[i] = c

\* the lowercase mapping of one character, as str.lower() applies it
LowerFull(c) ==
    IF c \in UpperLetters THEN <<LowerSeq[IndexIn(UpperSeq, c)]>>
    ELSE IF c = "U0130" THEN <<"i", "U0307">>
    ELSE <<c>>

\* the uppercase (and titlecase) mapping of one character
UpperFull(c) ==
    IF c \in LowerLetters THEN <<UpperSeq[IndexIn(LowerSeq, c)]>>
    ELSE <<c>>

RECURSIVE Flatten(_)
Flatten(ss) == IF ss = <<>> THEN <<>> ELSE Head(ss) \o Flatten(Tail(ss))

\* str.lower() and str.upper()
StrLower(s) == Flatten([i \in 1..Len(s) |-> LowerFull(s[i])])
StrUpper(s) == Flatten([i \in 1..Len(s) |-> UpperFull(s[i])])

\* str.capitalize(): first character titlecased, the rest lowercased
Capitalize(w) ==
    IF w = <<>> THEN <<>> ELSE UpperFull(w[1]) \o StrLower(Tail(w))

\* str.strip()
RECURSIVE LStrip(_)
LStrip(s) == IF s # <<>> /\ Head(s) \in Space THEN LStrip(Tail(s)) ELSE s
RECURSIVE RStrip(_)
RStrip(s) ==
    IF s # <<>> /\ s[Len(s)] \in Space THEN RStrip(SubSeq(s, 1, Len(s) - 1)) ELSE s
Strip(s) == RStrip(LStrip(s))

\* str.split(sep) on a one-character separator: the pieces between the
\* occurrences of sep, always at least one piece
RECURSIVE SplitOn(_, _)
SplitOn(s, sep) ==
    IF \A i \in DOMAIN s : s[i] # sep THEN <<s>>
    ELSE LET first == CHOOSE i \in DOMAIN s : s[i] = sep /\ \A j \in 1..(i - 1) : s[j] # sep
         IN  <<SubSeq(s, 1, first - 1)>> \o SplitOn(SubSeq(s, first + 1, Len(s)), sep)

\* str.split(): pieces between runs of whitespace, no empty piece
RECURSIVE SplitWs(_, _)
SplitWs(s, cur) ==
    IF s = <<>> THEN (IF cur = <<>> THEN <<>> ELSE <<cur>>)
    ELSE IF Head(s) \in Space
         THEN (IF cur = <<>> THEN <<>> ELSE <<cur>>) \o SplitWs(Tail(s), <<>>)
         ELSE SplitWs(Tail(s), Append(cur, Head(s)))
Split(s) == SplitWs(s, <<>>)

\* ' '.join(words)
RECURSIVE Join(_)
Join(ws) ==
    IF ws = <<>> THEN <<>>
    ELSE IF Len(ws) = 1 THEN ws[1]
    ELSE ws[1] \o <<" ">> \o Join(Tail(ws))

\* needle in haystack, for two str
Contains(hay, needle) ==
    \E i \in 1..(Len(hay) - Len(needle) + 1) :
        \A k \in 1..Len(needle) : hay[i + k - 1] = needle[k]

(***************************************************************************)
(* Regular expressions (module re). A pattern is a tree; Ends(r, s, i) is  *)
(* the set of positions at which some match of r that starts at position i *)
(* of s can end, so that a pattern matches at i iff that set is not empty. *)
(***************************************************************************)
Cls(S) == [t |-> "cls", set |-> S]
Cat(rs) == [t |-> "cat", rs |-> rs]
Alt(rs) == [t |-> "alt", rs |-> rs]
Opt(r) == [t |-> "opt", r |-> r]
Star(r) == [t |-> "star", r |-> r]
Plus(r) == Cat(<<r, Star(r)>>)
Eos == [t |-> "eos"]
Lit(s) == Cat([i \in 1..Len(s) |-> Cls({s[i]})])
\* a literal under re.IGNORECASE
LitI(s) == Cat([i \in 1..Len(s) |-> Cls({s[i]} \cup Range(LowerFull(s[i])) \cup Range(UpperFull(s[i])))])

RECURSIVE Ends(_, _, _)
RECURSIVE CatEnds(_, _, _, _)
RECURSIVE StarEnds(_, _, _, _)
Ends(r, s, i) ==
    CASE r.t = "cls" -> IF i <= Len(s) /\ s[i] \in r.set THEN {i + 1} ELSE {}
      [] r.t = "eos" -> IF i = Len(s) + 1 THEN {i} ELSE {}
      [] r.t = "opt" -> {i} \cup Ends(r.r, s, i)
      [] r.t = "alt" -> UNION {Ends(r.rs[k], s, i) : k \in DOMAIN r.rs}
      [] r.t = "cat" -> CatEnds(r.rs, 1, s, {i})
      [] r.t = "star" -> StarEnds(r.r, s, {i}, {i})
CatEnds(rs, k, s, from) ==
    IF k > Len(rs) \/ from = {} THEN from
    ELSE CatEnds(rs, k + 1, s, UNION {Ends(rs[k], s, j) : j \in from})
StarEnds(r, s, frontier, acc) ==
    LET new == UNION {Ends(r, s, j) : j \in frontier} \ acc
    IN  IF new = {} THEN acc ELSE StarEnds(r, s, new, acc \cup new)

\* re.match(r, s): a match at the start of s
ReMatch(r, s) == Ends(r, s, 1) # {}

SetMax(S) == CHOOSE m \in S : \A n \in S : n <= m
SetMin(S) == CHOOSE m \in S : \A n \in S : m <= n

\* re.sub(r, '', s) for a pattern that ends in $: the leftmost position from
\* which the rest of s matches is where the one match starts
SubToEnd(r, s) ==
    LET starts == {i \in 1..(Len(s) + 1) : Ends(r, s, i) # {}}
    IN  IF starts = {} THEN s ELSE SubSeq(s, 1, SetMin(starts) - 1)

\* re.sub(r, repl, s) for a pattern of greedy quantifiers over classes that are
\* disjoint from their successors (the match taken at i is the longest one), which
\* matches no empty string: leftmost matches, left to right, none overlapping
RECURSIVE SubAll(_, _, _, _)
SubAll(r, repl, s, i) ==
    IF i > Len(s) THEN <<>>
    ELSE LET e == Ends(r, s, i)
         IN  IF e = {} THEN <<s[i]>> \o SubAll(r, repl, s, i + 1)
             ELSE repl \o SubAll(r, repl, s, SetMax(e))

\* \d+\.?\d*
NumberRe == Cat(<<Plus(Cls(Digit)), Opt(Cls({"."})), Star(Cls(Digit))>>)
\* \$?\d+\.?\d*
PriceRe == Cat(<<Opt(Cls({"$"})), NumberRe>>)
WsStar == Star(Cls(Space))
WsPlus == Plus(Cls(Space))

(***************************************************************************)
(* normalize_dish_name                                                     *)
(***************************************************************************)
lowercase_words ==
    {Chars("and"), Chars("or"), Chars("the"), Chars("a"), Chars("an"), Chars("of"),
     Chars("in"), Chars("on"), Chars("at"), Chars("to"), Chars("for"), Chars("with"),
     Chars("by"), Chars("from")}

uppercase_words ==
    {Chars("USA"), Chars("UK"), Chars("NYC"), Chars("BBQ"), Chars("AI"), Chars("CEO")}

\* [^\w\s\-\'&,()]
ArtifactChars == Alphabet \ (Word \cup Space \cup {"-", "'", "&", ",", "(", ")"})

\* lines 256-264: the casing of the word at index i (0-based in the code, 1-based here)
NormalizeWord(word, i) ==
    LET word_lower == StrLower(word)
    IN  IF word_lower \in uppercase_words THEN StrUpper(word)
        ELSE IF i = 1 \/ word_lower \notin lowercase_words THEN Capitalize(word)
        ELSE word_lower

normalize_dish_name(name) ==
    IF name = <<>> THEN <<>>
    ELSE LET n1 == Strip(name)
             n2 == SubAll(WsPlus, <<" ">>, n1, 1)
             n3 == SubAll(Cls(ArtifactChars), <<>>, n2, 1)
             n4 == SubAll(WsPlus, <<" ">>, n3, 1)
             words == Split(n4)
         IN  IF words = <<>> THEN <<>>
             ELSE Strip(Join([i \in 1..Len(words) |-> NormalizeWord(words[i], i)]))

(***************************************************************************)
(* is_price_line, is_dish_name                                             *)
(***************************************************************************)
\* the seven price_patterns of lines 278-286, in order; line_lower is stripped,
\* so the $ of the first pattern is the end of the string
price_patterns ==
    <<Cat(<<PriceRe, WsStar, Eos>>),
      Cat(<<NumberRe, WsStar, Cls({"$"})>>),
      Cat(<<PriceRe, WsStar, Cls({"-"}), WsStar, PriceRe>>),
      Cat(<<NumberRe, WsStar,
            Alt(<<Lit(Chars("usd")), Lit(Chars("eur")), Lit(Chars("gbp")), Lit(Chars("rs")),
                  Cat(<<Lit(Chars("rupee")), Opt(Cls({"s"}))>>)>>)>>),
      Lit(Chars("price")),
      Cat(<<NumberRe, WsStar, Lit(Chars("each"))>>),
      Cat(<<NumberRe, WsStar, Lit(Chars("per"))>>)>>

\* [\d\s\$\.\,\-]
PriceChars == Digit \cup Space \cup {"$", ".", ",", "-"}

is_price_line(line) ==
    LET line_lower == Strip(StrLower(line))
        non_price_chars == SubAll(Cls(PriceChars), <<>>, line, 1)
    IN  \/ \E k \in DOMAIN price_patterns : ReMatch(price_patterns[k], line_lower)
        \* len(non_price_chars) / len(line) < 0.3
        \/ Len(line) > 0 /\ 10 * Len(non_price_chars) < 3 * Len(line)

skip_keywords ==
    {Chars("menu"), Chars("drink"), Chars("beverage"), Chars("wine"), Chars("beer"),
     Chars("cocktail"), Chars("coffee"), Chars("tea"), Chars("juice"), Chars("allergen"),
     Chars("contains"), Chars("gluten"), Chars("vegan"), Chars("vegetarian"),
     Chars("page"), Chars("copyright"), Chars("tel"), Chars("phone"), Chars("email"),
     Chars("website"), Chars("www"), Chars("hours"), Chars("open"), Chars("closed"),
     Chars("monday"), Chars("tuesday"), Chars("wednesday"), Chars("thursday"),
     Chars("friday"), Chars("saturday"), Chars("sunday"), Chars("am"), Chars("pm")}

\* lines 326-331: the three nested conditions under which the keyword test returns False
KeywordReject(line_lower) ==
    /\ \E keyword \in skip_keywords : Contains(line_lower, keyword)
    /\ ~ \E keyword \in skip_keywords : keyword = line_lower
    /\ line_lower \in skip_keywords

\* ^\d+[\.\)]\s*$
NumberingOnlyRe == Cat(<<Plus(Cls(Digit)), Cls({".", ")"}), WsStar, Eos>>)

\* is_dish_name without the price test of lines 309-310
is_dish_name_noprice(line) ==
    LET line_clean == Strip(line)
        line_lower == StrLower(line_clean)
        special == SubAll(Cls(Word \cup Space), <<>>, line_clean, 1)
    IN  /\ ~ (Len(line_clean) < 2 \/ Len(line_clean) > 80)
        /\ ~ ReMatch(NumberingOnlyRe, line_clean)
        /\ ~ KeywordReject(line_lower)
        /\ \E i \in DOMAIN line_clean : line_clean[i] \in LowerLetters \cup UpperLetters
        /\ ~ (2 * Len(special) > Len(line_clean))

is_dish_name(line) ==
    LET line_clean == Strip(line)
        line_lower == StrLower(line_clean)
        special == SubAll(Cls(Word \cup Space), <<>>, line_clean, 1)
    IN  /\ ~ (Len(line_clean) < 2 \/ Len(line_clean) > 80)
        /\ ~ is_price_line(line_clean)
        /\ ~ ReMatch(NumberingOnlyRe, line_clean)
        /\ ~ KeywordReject(line_lower)
        /\ \E i \in DOMAIN line_clean : line_clean[i] \in LowerLetters \cup UpperLetters
        \* special_char_ratio > 0.5
        /\ ~ (2 * Len(special) > Len(line_clean))

(***************************************************************************)
(* extract_dishes_from_menu                                                *)
(***************************************************************************)
Categories == {"appetizer", "mains", "desserts"}

appetizer_synonyms ==
    {Chars("appetizer"), Chars("appetiser"), Chars("appetizers"), Chars("appetisers"),
     Chars("starter"), Chars("starters"), Chars("small plates"), Chars("small plate"),
     Chars("tapas"), Chars("hors d'oeuvres"), Chars("hors d'oeuvre"), Chars("hors d oeuvres"),
     Chars("beginning"), Chars("beginnings"), Chars("first course"), Chars("first courses")}

mains_synonyms ==
    {Chars("main"), Chars("mains"), Chars("main course"), Chars("main courses"),
     Chars("entree"), Chars("entrees"), Chars("big plates"), Chars("big plate"),
     Chars("large plates"), Chars("large plate"), Chars("mains course"), Chars("main dish"),
     Chars("main dishes"), Chars("second course"), Chars("second courses")}

dessert_synonyms ==
    {Chars("dessert"), Chars("desserts"), Chars("sweet"), Chars("sweets"),
     Chars("pudding"), Chars("puddings"), Chars("finale"), Chars("finales"),
     Chars("sweet course"), Chars("sweet courses"), Chars("after dinner")}

\* "U00FB" and "U00E9" are the letters u-circumflex and e-acute of two keywords
dessert_keywords ==
    {Chars("cake"), Chars("pie"), Chars("ice cream"), Chars("pudding"), Chars("chocolate"),
     Chars("cookie"), Chars("brownie"), Chars("tart"), Chars("mousse"), Chars("custard"),
     Chars("flan"), Chars("sorbet"), Chars("cheesecake"), Chars("tiramisu"), Chars("gelato"),
     Chars("sundae"), Chars("parfait"), Chars("creme brulee"),
     Chars("creme br") \o <<"U00FB", "l", "U00E9", "e">>, Chars("baklava"), Chars("cannoli")}

appetizer_keywords ==
    {Chars("salad"), Chars("soup"), Chars("dip"), Chars("bruschetta"), Chars("samosa"),
     Chars("spring roll"), Chars("wings"), Chars("nachos"), Chars("quesadilla"),
     Chars("hummus"), Chars("guacamole"), Chars("appetizer"), Chars("starter"),
     Chars("tapas"), Chars("antipasto"), Chars("mezze"), Chars("crostini"), Chars("canape"),
     Chars("canap") \o <<"U00E9">>}

AnyIn(words, text) == \E w \in words : Contains(text, w)

\* lines 377-389 with the mains test placed before the appetizer test
HeaderOf_mainsFirst(line_lower) ==
    IF AnyIn(mains_synonyms, line_lower) THEN "mains"
    ELSE IF AnyIn(appetizer_synonyms, line_lower) THEN "appetizer"
    ELSE IF AnyIn(dessert_synonyms, line_lower) THEN "desserts"
    ELSE "None"

\* lines 377-389: the category a header line switches to, "None" for a line that is no header
HeaderOf(line_lower) ==
    IF AnyIn(appetizer_synonyms, line_lower) THEN "appetizer"
    ELSE IF AnyIn(mains_synonyms, line_lower) THEN "mains"
    ELSE IF AnyIn(dessert_synonyms, line_lower) THEN "desserts"
    ELSE "None"

\* ^\d+[\.\)]\s*
LeadingNumberRe == Cat(<<Plus(Cls(Digit)), Cls({".", ")"}), WsStar>>)
\* \s*\$?\d+\.?\d*\s*$
TrailingPriceRe == Cat(<<WsStar, PriceRe, WsStar, Eos>>)
\* \s*-\s*\$?\d+\.?\d*\s*$
DashPriceRe == Cat(<<WsStar, Cls({"-"}), WsStar, PriceRe, WsStar, Eos>>)
\* \s*[\(\[].*?\d+\.?\d*.*?[\)\]]\s*$
BracketPriceRe ==
    Cat(<<WsStar, Cls({"(", "["}), Star(Cls(Dot)), NumberRe, Star(Cls(Dot)),
          Cls({")", "]"}), WsStar, Eos>>)
\* \s+\$\d+\.?\d*\s*
StandalonePriceRe == Cat(<<WsPlus, Cls({"$"}), NumberRe, WsStar>>)
\* \s+\d+\.?\d*\s*(usd|eur|gbp|rs|rupees?|each|per)\s*$ with re.IGNORECASE
CurrencySuffixRe ==
    Cat(<<WsPlus, NumberRe, WsStar,
          Alt(<<LitI(Chars("usd")), LitI(Chars("eur")), LitI(Chars("gbp")), LitI(Chars("rs")),
                Cat(<<LitI(Chars("rupee")), Opt(Cls({"s", "S"}))>>),
                LitI(Chars("each")), LitI(Chars("per"))>>),
          WsStar, Eos>>)

\* re.sub(r'^\d+[\.\)]\s*', '', s): only the start of s can match
SubLeadingNumber(s) ==
    LET e == Ends(LeadingNumberRe, s, 1)
    IN  IF e = {} THEN s ELSE SubSeq(s, SetMax(e), Len(s))

\* lines 397-413
CleanLine(line_original) ==
    LET c1 == SubLeadingNumber(line_original)
        c2 == SubToEnd(TrailingPriceRe, c1)
        c3 == SubToEnd(DashPriceRe, c2)
        c4 == SubToEnd(BracketPriceRe, c3)
        c5 == SubAll(StandalonePriceRe, <<" ">>, c4, 1)
        c6 == SubToEnd(CurrencySuffixRe, c5)
    IN  Strip(c6)

\* lines 392-427: the normalized name of a line that is no header, <<>> for a skipped line
DishOf(line_original) ==
    IF ~ is_dish_name(line_original) THEN <<>>
    ELSE LET line_clean == CleanLine(line_original)
             normalized_name == normalize_dish_name(line_clean)
         IN  IF Len(line_clean) < 2 THEN <<>>
             ELSE IF normalized_name = <<>> \/ Len(normalized_name) < 2 THEN <<>>
             ELSE IF is_price_line(normalized_name) THEN <<>>
             ELSE normalized_name

\* lines 430-454 without the test of line 430: the keywords always decide
CategoryOf_inferAlways(normalized_name, current) ==
    LET dish_lower == StrLower(normalized_name)
    IN  IF AnyIn(dessert_keywords, dish_lower) THEN "desserts"
        ELSE IF AnyIn(appetizer_keywords, dish_lower) THEN "appetizer"
        ELSE "mains"

\* lines 430-454: the list a name is appended to
CategoryOf(normalized_name, current) ==
    IF current # "None" THEN current
    ELSE LET dish_lower == StrLower(normalized_name)
         IN  IF AnyIn(dessert_keywords, dish_lower) THEN "desserts"
             ELSE IF AnyIn(appetizer_keywords, dish_lower) THEN "appetizer"
             ELSE "mains"

\* "if normalized_name not in categorized_dishes[c]: categorized_dishes[c].append(...)"
AppendNew(dishes, normalized_name) ==
    IF \E i \in DOMAIN dishes : dishes[i] = normalized_name THEN dishes
    ELSE Append(dishes, normalized_name)

\* UniqueDishes with the test of line 463 inverted ("if dish_lower in seen")
RECURSIVE UniqueDishes_inverted(_, _)
UniqueDishes_inverted(dishes, seen) ==
    IF dishes = <<>> THEN <<>>
    ELSE LET dish == Head(dishes)
             dish_lower == StrLower(dish)
         IN  IF dish_lower \in seen
             THEN <<dish>> \o UniqueDishes_inverted(Tail(dishes), seen \cup {dish_lower})
             ELSE UniqueDishes_inverted(Tail(dishes), seen)

\* lines 459-465: first occurrences, compared lowercased
RECURSIVE UniqueDishes(_, _)
UniqueDishes(dishes, seen) ==
    IF dishes = <<>> THEN <<>>
    ELSE LET dish == Head(dishes)
             dish_lower == StrLower(dish)
         IN  IF dish_lower \notin seen
             THEN <<dish>> \o UniqueDishes(Tail(dishes), seen \cup {dish_lower})
             ELSE UniqueDishes(Tail(dishes), seen)

MaxDishes == 20

\* list[:n]
Take(list, n) == SubSeq(list, 1, IF Len(list) < n THEN Len(list) ELSE n)

\* CapDishes without the slice of line 466
CapDishes_uncapped(unique_dishes) == unique_dishes

\* line 466
CapDishes(unique_dishes) == Take(unique_dishes, MaxDishes)

\* line 346-367: the call splits its argument and sets up its locals
ExtractBegin ==
    /\ phase = "call"
    /\ lines' = SplitOn(menu_text, "\n")
    /\ pos' = 1
    /\ current_category' = "None"
    /\ categorized_dishes' = [c \in Categories |-> <<>>]
    /\ phase' = "loop"
    /\ UNCHANGED <<menu_text, emitted>>
    /\ UNCHANGED <<normVars, classVars, findVars, avgVars, restVars>>

\* lines 369-454: one iteration of the loop over the lines
ExtractLine ==
    /\ phase = "loop"
    /\ pos <= Len(lines)
    /\ LET line_original == Strip(lines[pos])
           header == IF line_original = <<>> THEN "None" ELSE HeaderOf(StrLower(line_original))
           name == IF line_original = <<>> \/ header # "None" THEN <<>> ELSE DishOf(line_original)
           cat == CategoryOf(name, current_category)
       IN  /\ current_category' = IF header # "None" THEN header ELSE current_category
           /\ categorized_dishes' =
                 IF name = <<>> THEN categorized_dishes
                 ELSE [categorized_dishes EXCEPT ![cat] = AppendNew(@, name)]
           /\ emitted' =
                 IF name = <<>> THEN emitted
                 ELSE Append(emitted, [raw |-> line_original, name |-> name, category |-> cat])
    /\ pos' = pos + 1
    /\ UNCHANGED <<menu_text, lines, phase>>
    /\ UNCHANGED <<normVars, classVars, findVars, avgVars, restVars>>

\* lines 456-468: the post-pass over the three lists, and the return
ExtractReturn ==
    /\ phase = "loop"
    /\ pos > Len(lines)
    /\ categorized_dishes' =
          [c \in Categories |-> CapDishes(UniqueDishes(categorized_dishes[c], {}))]
    /\ phase' = "done"
    /\ UNCHANGED <<menu_text, lines, pos, current_category, emitted>>
    /\ UNCHANGED <<normVars, classVars, findVars, avgVars, restVars>>

(***************************************************************************)
(* The calls under study. Each specification starts one component with an *)
(* argument drawn from a bounded set and leaves the other components idle. *)
(***************************************************************************)
MenuIdle ==
    /\ menu_text = <<>> /\ lines = <<>> /\ pos = 0 /\ current_category = "None"
    /\ categorized_dishes = [c \in Categories |-> <<>>]
    /\ phase = "idle" /\ emitted = <<>>
NormIdle == nm_arg = <<>> /\ nm_out = <<>>
ClassIdle == cl_arg = <<>> /\ cl_price = "unset" /\ cl_dish = "unset"
FindIdle == df = <<>> /\ fr_name = <<>> /\ fr_ret = [kind |-> "idle"]
AvgIdle == av_recipes = <<>> /\ av_ret = [kind |-> "idle"]

NumThreads == 2
Threads == 1..NumThreads

LoadIdle ==
    /\ csv_at = "cwd" /\ proc = "starting" /\ recipes_df = 0 /\ objs = <<>> /\ reads = 0
    /\ pc = [t \in Threads |-> "idle"] /\ req = [t \in Threads |-> "none"]
    /\ tmp = [t \in Threads |-> 0] /\ ret = [t \in Threads |-> [obj |-> 0]]
    /\ calls = [t \in Threads |-> 0] /\ served = 0 /\ reported = FALSE
SimIdle == sm_profile1 = <<>> /\ sm_profile2 = <<>> /\ sm_ret = [kind |-> "idle"]
RankIdle == rk_df = <<>> /\ rk_request = [kind |-> "idle"] /\ rk_ret = [kind |-> "idle"]
ProfIdle ==
    /\ pf_df = <<>> /\ pf_dishes = <<>> /\ pf_profile = <<>> /\ pf_ret = [kind |-> "idle"]
    /\ pf_before = <<>> /\ pf_calls = 0
RestIdle == LoadIdle /\ SimIdle /\ RankIdle /\ ProfIdle

SeqsUpTo(S, n) == UNION {[1..k -> S] : k \in 0..n}

\* '\n'.join(ls)
RECURSIVE MenuOf(_)
MenuOf(ls) ==
    IF ls = <<>> THEN <<>>
    ELSE IF Len(ls) = 1 THEN ls[1]
    ELSE ls[1] \o <<"\n">> \o MenuOf(Tail(ls))

\* the menu of section 8 of the specification
ScenarioMenu ==
    Chars("Starters\nBruschetta - $9.00\nMains\nGrilled Salmon 22.00\nDesserts\nChocolate Cake")

\* three more fixed menus: the price lines of section 8; numbering, blank lines,
\* a carriage return and a bracketed price; a capital I with dot above
PriceMenu == Chars("$9.85\n12.00\nPrice: 8.50\nTea $4 hot\n12.00 each")
MixedMenu == Chars("1. fish (12.00)\n  \nFISH\r\n\nNaan 20 rs\nx\n2)\nMain Street Burger\nSoup")
DottedMenu == <<"P", "U0130", "D", "E">> \o Chars("\nP") \o <<"i", "U0307">> \o Chars("de")
\* lines that read as dishes and hold a section synonym, one of them of two sections
HeaderMenu ==
    Chars("Hummus\nSweet Corn Soup\nBrownie\nMain Street Burger\nFish\nStarters and Mains\nGarlic Naan")
FixedMenus == {ScenarioMenu, PriceMenu, MixedMenu, DottedMenu, HeaderMenu}

LinePool ==
    {Chars("Starters"), Chars("Desserts"), Chars("Bruschetta - $9.00"), Chars("Chocolate Cake"), Chars("CHOCOLATE cake 4.50"),
     Chars("5 $ burger"), Chars("!price 5"), Chars("menu")}

MaxLines == 3
ShortMenus == {MenuOf(ls) : ls \in SeqsUpTo(LinePool, MaxLines)}

\* menus long enough for the cap: an optional header, n distinct dishes, and
\* optionally the last dish once more in capitals
MaxLong == 22
GeneratedDish(i) == Chars("Dish ") \o <<UpperSeq[i]>>
LongMenus ==
    {MenuOf(hdr \o [i \in 1..n |-> GeneratedDish(i)] \o
            (IF again /\ n > 0 THEN <<StrUpper(GeneratedDish(n))>> ELSE <<>>)) :
        hdr \in {<<>>, <<Chars("Desserts")>>}, n \in 0..MaxLong, again \in BOOLEAN}

Menus == FixedMenus \cup ShortMenus \cup LongMenus

InitMenu ==
    /\ menu_text \in Menus
    /\ lines = <<>> /\ pos = 0 /\ current_category = "None"
    /\ categorized_dishes = [c \in Categories |-> <<>>]
    /\ phase = "call" /\ emitted = <<>>
    /\ NormIdle /\ ClassIdle /\ FindIdle /\ AvgIdle /\ RestIdle

NextMenu == ExtractBegin \/ ExtractLine \/ ExtractReturn

SpecMenu == InitMenu /\ [][NextMenu]_vars

(***************************************************************************)
(* normalize_dish_name called on a name, and once more on what it returned *)
(***************************************************************************)
\* pieces the arguments are made of: words with and without a casing rule,
\* whitespace, a stripped and a kept punctuation mark, a capital I with dot above
NormTokens ==
    {Chars("the"), Chars("Of"), Chars("bbq"), Chars("RIBS"), Chars("d"),
     <<" ">>, <<"\t">>, <<"!">>, <<"-">>, <<"U0130">>}

MaxTokens == 3
NormInputs == {Flatten(ts) : ts \in SeqsUpTo(NormTokens, MaxTokens)}

InitNormalize ==
    /\ nm_arg \in NormInputs
    /\ nm_out = <<>>
    /\ MenuIdle /\ ClassIdle /\ FindIdle /\ AvgIdle /\ RestIdle

NormalizeCall ==
    /\ nm_out = <<>>
    /\ nm_out' = <<normalize_dish_name(nm_arg)>>
    /\ UNCHANGED <<nm_arg, menuVars, classVars, findVars, avgVars, restVars>>

NormalizeAgain ==
    /\ Len(nm_out) = 1
    /\ nm_out' = Append(nm_out, normalize_dish_name(nm_out[1]))
    /\ UNCHANGED <<nm_arg, menuVars, classVars, findVars, avgVars, restVars>>

NextNormalize == NormalizeCall \/ NormalizeAgain

SpecNormalize == InitNormalize /\ [][NextNormalize]_vars

(***************************************************************************)
(* is_price_line and is_dish_name called on one line                       *)
(***************************************************************************)
\* every reserved keyword as written, capitalized and in capitals, and lines
\* that hold a keyword among other words, a price, or nothing of either
ClassInputs ==
    skip_keywords
      \cup {Capitalize(k) : k \in skip_keywords}
      \cup {StrUpper(k) : k \in skip_keywords}
      \cup {Chars("Vegan Burger"), Chars("Green Tea Cake"), Chars("Ham"), Chars("Fish"),
            Chars("$9.85"), Chars("12.00"), Chars("Price: 8.50"), Chars("9.85 each"),
            Chars("12 - 14"), Chars("3."), Chars("x"), Chars("***"), Chars("A+++")}

InitClassify ==
    /\ cl_arg \in ClassInputs
    /\ cl_price = "unset" /\ cl_dish = "unset"
    /\ MenuIdle /\ NormIdle /\ FindIdle /\ AvgIdle /\ RestIdle

PyBool(b) == IF b THEN "True" ELSE "False"

PriceLineCall ==
    /\ cl_price = "unset"
    /\ cl_price' = PyBool(is_price_line(cl_arg))
    /\ UNCHANGED <<cl_arg, cl_dish, menuVars, normVars, findVars, avgVars, restVars>>

DishNameCall ==
    /\ cl_dish = "unset"
    /\ cl_dish' = PyBool(is_dish_name(cl_arg))
    /\ UNCHANGED <<cl_arg, cl_price, menuVars, normVars, findVars, avgVars, restVars>>

NextClassify == PriceLineCall \/ DishNameCall

SpecClassify == InitClassify /\ [][NextClassify]_vars

(***************************************************************************)
(* find_recipe_by_name. The dataset is a sequence of rows in file order; a *)
(* row has an id and a name. The result tells which return statement       *)
(* produced it: line 182 ("exact"), 187 ("partial") or 204 ("words").      *)
(***************************************************************************)
\* Series.str.contains(pat) with its default regex=True compiles pat with
\* re.compile. A pattern made of letters, blanks, '.', '(' and ')' is a
\* sequence of atoms, '.' standing for any character and the parentheses
\* forming groups, which must be balanced
RECURSIVE Balanced(_, _, _)
Balanced(pat, i, depth) ==
    IF i > Len(pat) THEN depth = 0
    ELSE IF pat[i] = "(" THEN Balanced(pat, i + 1, depth + 1)
    ELSE IF pat[i] = ")" THEN depth > 0 /\ Balanced(pat, i + 1, depth - 1)
    ELSE Balanced(pat, i + 1, depth)

PatCompile(pat) ==
    LET atoms == SelectSeq(pat, LAMBDA c : c \notin {"(", ")"})
    IN  Cat([k \in 1..Len(atoms) |-> IF atoms[k] = "." THEN Cls(Dot) ELSE Cls({atoms[k]})])

\* re.search(r, s) that does not take the match of no character
ReSearch_nonEmpty(r, s) == \E i \in 1..(Len(s) + 1) : Ends(r, s, i) \ {i} # {}

\* re.search(r, s): a match anywhere in s
ReSearch(r, s) == \E i \in 1..(Len(s) + 1) : Ends(r, s, i) # {}

\* set(text.split())
WordSet(text) == Range(Split(text))

Max(a, b) == IF a > b THEN a ELSE b

\* line 200, score > best_score, on the fractions c/m and bc/bm
ScoreBetter(c, m, bc, bm) == c * bm > bc * m

\* lines 191-202: the loop over the rows; best is the index of best_match (0 for
\* None) and best_score as a fraction
RECURSIVE WordScan(_, _, _, _)
WordScan(rows, k, name_words, best) ==
    IF k > Len(rows) THEN best
    ELSE LET recipe_words == WordSet(StrLower(rows[k].name))
             common_words == name_words \cap recipe_words
             c == Cardinality(common_words)
             m == Max(Cardinality(name_words), Cardinality(recipe_words))
         IN  IF common_words # {} /\ ScoreBetter(c, m, best.num, best.den)
             THEN WordScan(rows, k + 1, name_words, [idx |-> k, num |-> c, den |-> m])
             ELSE WordScan(rows, k + 1, name_words, best)

find_recipe_by_name(name, rows) ==
    LET name_lower == Strip(StrLower(name))
        exact_match == {i \in DOMAIN rows : StrLower(rows[i].name) = name_lower}
    IN  IF exact_match # {}
        THEN [kind |-> "row", tier |-> "exact", row |-> rows[SetMin(exact_match)]]
        ELSE IF ~ Balanced(name_lower, 1, 0)
        THEN [kind |-> "error", tier |-> "partial"]      \* re.error out of line 185
        ELSE LET pat == PatCompile(name_lower)
                 partial_match == {i \in DOMAIN rows : ReSearch(pat, StrLower(rows[i].name))}
             IN  IF partial_match # {}
                 THEN [kind |-> "row", tier |-> "partial", row |-> rows[SetMin(partial_match)]]
                 ELSE LET best == WordScan(rows, 1, WordSet(name_lower),
                                           [idx |-> 0, num |-> 0, den |-> 1])
                      IN  IF 10 * best.num > 3 * best.den
                          THEN [kind |-> "row", tier |-> "words", row |-> rows[best.idx]]
                          ELSE [kind |-> "none", tier |-> "words"]

NamePool ==
    {Chars("Chicken Tikka Masala"), Chars("Chicken Tikka"), Chars("Punjabi Dal Fry Tadka"),
     Chars("Dal Fry"), Chars("Dal (Fry) Special"), Chars("Masala Dosa")}

QueryPool ==
    {Chars("chiken tikka"), Chars("Chicken Tikka"), Chars(" chicken tikka masala "),
     Chars("tikka"), Chars("masala chicken"), Chars("biryani"), Chars("dosa fry"),
     Chars("dal (fry)"), Chars("dal (fry"), Chars("d.l fry"), <<>>, Chars("  ")}

MaxRows == 3
Datasets ==
    {[i \in DOMAIN names |-> [id |-> i, name |-> names[i]]] :
        names \in SeqsUpTo(NamePool, MaxRows) \ {<<>>}}

InitFind ==
    /\ df \in Datasets
    /\ fr_name \in QueryPool
    /\ fr_ret = [kind |-> "idle"]
    /\ MenuIdle /\ NormIdle /\ ClassIdle /\ AvgIdle /\ RestIdle

FindCall ==
    /\ df # <<>>
    /\ fr_ret.kind = "idle"
    /\ fr_ret' = find_recipe_by_name(fr_name, df)
    /\ UNCHANGED <<df, fr_name, menuVars, normVars, classVars, avgVars, restVars>>

NextFind == FindCall

SpecFind == InitFind /\ [][NextFind]_vars

(***************************************************************************)
(* calculate_average_flavor_profile. A flavor value is a whole number of   *)
(* hundredths. A recipe's flavor_profile is a dict, or the text of a dict  *)
(* display, given as its key: value items in the order written.            *)
(***************************************************************************)
FlavorKeys == <<"spicy", "sweet", "umami", "sour", "salty">>

\* ast.literal_eval of a dict display: of two items with one key the later stays
LiteralEval(items) ==
    [k \in {items[i].k : i \in DOMAIN items} |->
        items[SetMax({i \in DOMAIN items : items[i].k = k})].v]

\* lines 213-216
ProfileOf(recipe) ==
    IF recipe.flavor_profile.type = "str" THEN LiteralEval(recipe.flavor_profile.text)
    ELSE recipe.flavor_profile.value

\* [p.get(k, 0) for p in profiles], over only the profiles that have the key
ComponentValues_skipMissing(profiles, k) ==
    LET having == SelectSeq(profiles, LAMBDA p : k \in DOMAIN p)
    IN  IF having = <<>> THEN <<0>> ELSE [i \in DOMAIN having |-> having[i][k]]

\* [p.get(k, 0) for p in profiles]
ComponentValues(profiles, k) ==
    [i \in DOMAIN profiles |-> IF k \in DOMAIN profiles[i] THEN profiles[i][k] ELSE 0]

RECURSIVE SumSeq(_)
SumSeq(xs) == IF xs = <<>> THEN 0 ELSE Head(xs) + SumSeq(Tail(xs))

Abs(x) == IF x < 0 THEN -x ELSE x

\* round(np.mean(xs), 2): the hundredth nearest to sum/n; when sum/n lies halfway
\* between two hundredths the binary floating-point value of the mean decides,
\* and either neighbour can come out
MeanRounded(xs) ==
    LET n == Len(xs)
        q == SumSeq(xs) \div n
    IN  {r \in {q, q + 1} : 2 * Abs(n * r - SumSeq(xs)) <= n}

Dict(value) == [type |-> "dict", value |-> value]
Text(items) == [type |-> "str", text |-> items]
Item(k, v) == [k |-> k, v |-> v]

RecipePool ==
    {[name |-> "A", flavor_profile |->
         Dict([spicy |-> 80, sweet |-> 10, umami |-> 55, sour |-> 25, salty |-> 40])],
     [name |-> "B", flavor_profile |->
         Dict([spicy |-> 15, sweet |-> 90, umami |-> 5, sour |-> 30, salty |-> 0])],
     [name |-> "C", flavor_profile |-> Dict([spicy |-> 60, umami |-> 70, sour |-> 1])],
     [name |-> "D", flavor_profile |-> Dict(<<>>)],
     [name |-> "E", flavor_profile |->
         Text(<<Item("spicy", 10), Item("sweet", 20), Item("umami", 30),
                Item("sour", 40), Item("salty", 50)>>)],
     [name |-> "F", flavor_profile |->
         Text(<<Item("sweet", 5), Item("salty", 33), Item("sweet", 45)>>)]}

MaxRecipes == 3

InitAverage ==
    /\ av_recipes \in SeqsUpTo(RecipePool, MaxRecipes)
    /\ av_ret = [kind |-> "idle"]
    /\ MenuIdle /\ NormIdle /\ ClassIdle /\ FindIdle /\ RestIdle

\* the values calculate_average_flavor_profile(recipes) can return
calculate_average_flavor_profile(recipes) ==
    IF recipes = <<>> THEN {[k \in Range(FlavorKeys) |-> 0]}
    ELSE LET profiles == [i \in DOMAIN recipes |-> ProfileOf(recipes[i])]
             avg(k) == MeanRounded(ComponentValues(profiles, k))
         IN  {[spicy |-> a, sweet |-> b, umami |-> c, sour |-> d, salty |-> e] :
                 a \in avg("spicy"), b \in avg("sweet"), c \in avg("umami"),
                 d \in avg("sour"), e \in avg("salty")}

AverageCall ==
    /\ av_ret.kind = "idle"
    /\ \E result \in calculate_average_flavor_profile(av_recipes) :
           av_ret' = [kind |-> "value", profile |-> result]
    /\ UNCHANGED <<av_recipes, menuVars, normVars, classVars, findVars, restVars>>

NextAverage == AverageCall

SpecAverage == InitAverage /\ [][NextAverage]_vars

(***************************************************************************)
(* Natural numbers of any size, for the arithmetic of float64: a number is *)
(* the sequence of its digits in base 2^15, lowest first, without leading  *)
(* zeros (zero is the empty sequence).                                     *)
(***************************************************************************)
LimbBits == 15
Base == 2 ^ LimbBits

RECURSIVE BNorm(_)
BNorm(a) == IF a # <<>> /\ a[Len(a)] = 0 THEN BNorm(SubSeq(a, 1, Len(a) - 1)) ELSE a

BFromInt(n) ==
    BNorm(<<n % Base, (n \div Base) % Base, n \div (Base * Base)>>)

Limb(a, i) == IF i <= Len(a) THEN a[i] ELSE 0

\* a < b, a = b, a > b as -1, 0, 1
RECURSIVE BCmpFrom(_, _, _)
BCmpFrom(a, b, i) ==
    IF i = 0 THEN 0
    ELSE IF a[i] < b[i] THEN -1
    ELSE IF a[i] > b[i] THEN 1
    ELSE BCmpFrom(a, b, i - 1)
BCmp(a, b) ==
    IF Len(a) < Len(b) THEN -1
    ELSE IF Len(a) > Len(b) THEN 1
    ELSE BCmpFrom(a, b, Len(a))

RECURSIVE BAddFrom(_, _, _, _)
BAddFrom(a, b, i, carry) ==
    IF i > Len(a) /\ i > Len(b)
    THEN (IF carry = 0 THEN <<>> ELSE <<carry>>)
    ELSE LET t == Limb(a, i) + Limb(b, i) + carry
         IN  <<t % Base>> \o BAddFrom(a, b, i + 1, t \div Base)
BAdd(a, b) == BAddFrom(a, b, 1, 0)

\* a - b for a >= b
RECURSIVE BSubFrom(_, _, _, _)
BSubFrom(a, b, i, borrow) ==
    IF i > Len(a) THEN <<>>
    ELSE LET t == a[i] - Limb(b, i) - borrow
         IN  IF t < 0 THEN <<t + Base>> \o BSubFrom(a, b, i + 1, 1)
             ELSE <<t>> \o BSubFrom(a, b, i + 1, 0)
BSub(a, b) == BNorm(BSubFrom(a, b, 1, 0))

\* a * d for a digit d
RECURSIVE BMulSmallFrom(_, _, _, _)
BMulSmallFrom(a, d, i, carry) ==
    IF i > Len(a) THEN (IF carry = 0 THEN <<>> ELSE <<carry>>)
    ELSE LET t == a[i] * d + carry
         IN  <<t % Base>> \o BMulSmallFrom(a, d, i + 1, t \div Base)
BMulSmall(a, d) == IF d = 0 THEN <<>> ELSE BMulSmallFrom(a, d, 1, 0)

\* a * Base^k
BShiftLimbs(a, k) == IF a = <<>> THEN <<>> ELSE [i \in 1..k |-> 0] \o a

RECURSIVE BMulFrom(_, _, _)
BMulFrom(a, b, i) ==
    IF i > Len(b) THEN <<>>
    ELSE BAdd(BShiftLimbs(BMulSmall(a, b[i]), i - 1), BMulFrom(a, b, i + 1))
BMul(a, b) == BMulFrom(a, b, 1)

\* a * 2^n
BShl(a, n) == BShiftLimbs(BMulSmall(a, 2 ^ (n % LimbBits)), n \div LimbBits)

\* a \div d for a digit d, from the highest digit down
RECURSIVE BDivSmallFrom(_, _, _, _)
BDivSmallFrom(a, d, i, rem) ==
    IF i = 0 THEN <<>>
    ELSE LET t == rem * Base + a[i]
         IN  Append(BDivSmallFrom(a, d, i - 1, t % d), t \div d)
BDivSmall(a, d) == BNorm(BDivSmallFrom(a, d, Len(a), 0))

\* a \div 2^n
BShr(a, n) ==
    LET k == n \div LimbBits
    IN  IF k >= Len(a) THEN <<>>
        ELSE BDivSmall(SubSeq(a, k + 1, Len(a)), 2 ^ (n % LimbBits))

RECURSIVE IntBitLen(_)
IntBitLen(n) == IF n = 0 THEN 0 ELSE 1 + IntBitLen(n \div 2)
\* the number of binary digits of a
BitLen(a) == IF a = <<>> THEN 0 ELSE LimbBits * (Len(a) - 1) + IntBitLen(a[Len(a)])

\* binary digit i of a, digit 0 the lowest
Bit(a, i) == (Limb(a, i \div LimbBits + 1) \div 2 ^ (i % LimbBits)) % 2

BOdd(a) == a # <<>> /\ a[1] % 2 = 1

\* In what follows a value that is used more than once is the argument of an
\* operator of its own, which is evaluated once.

\* the largest of d, d - 1 and d - 2 whose product with b is at most r
QuotientFit(r, b, d) ==
    IF BCmp(BMulSmall(b, d), r) <= 0 THEN d
    ELSE IF BCmp(BMulSmall(b, d - 1), r) <= 0 THEN d - 1
    ELSE d - 2

QuotientCap(est) == IF est >= Base THEN Base - 1 ELSE est

\* the largest digit d with b * d <= r, for r < b * Base and a b whose highest
\* digit is Base / 2 or more: the two highest digits of r divided by the
\* highest digit of b give d, d + 1 or d + 2
QuotientDigit(r, b) ==
    QuotientFit(r, b,
        QuotientCap((Limb(r, Len(b) + 1) * Base + Limb(r, Len(b))) \div b[Len(b)]))

\* the quotient q and the remainder r with their next digit d
BDivModPut(q, r, b, d) == <<<<d>> \o q, BSub(r, BMulSmall(b, d))>>

\* one more digit of the dividend below the quotient and remainder of the
\* higher ones
BDivModStep(higher, digit, b) ==
    IF higher[2] = <<>> /\ digit = 0 THEN <<<<0>> \o higher[1], <<>>>>
    ELSE BDivModPut(higher[1], <<digit>> \o higher[2], b,
                    QuotientDigit(<<digit>> \o higher[2], b))

\* <<a \div b, a % b>> for such a b and the digits of a from digit i up, the
\* highest digit first: fewer digits than b has are a remainder already
RECURSIVE BDivModFrom(_, _, _)
BDivModFrom(a, b, i) ==
    IF Len(a) - i + 1 < Len(b) THEN <<<<>>, BNorm(SubSeq(a, i, Len(a)))>>
    ELSE BDivModStep(BDivModFrom(a, b, i + 1), a[i], b)

BDivModBack(qr, shift) == <<BNorm(qr[1]), BShr(qr[2], shift)>>

BDivModShifted(a, b, shift) ==
    BDivModBack(BDivModFrom(BShl(a, shift), BShl(b, shift), 1), shift)

\* <<a \div b, a % b>> for b > 0: both are first multiplied by the power of two
\* that brings the highest digit of b to Base / 2 or more
BDivMod(a, b) == BDivModShifted(a, b, LimbBits - IntBitLen(b[Len(b)]))

\* the largest s with s * s <= a, by Newton's iteration from an s that is not
\* too small: the values decrease until the root is reached
RECURSIVE BSqrtFrom(_, _)
BSqrtNext(a, s, next) == IF BCmp(next, s) >= 0 THEN s ELSE BSqrtFrom(a, next)
BSqrtFrom(a, s) == BSqrtNext(a, s, BShr(BAdd(s, BDivMod(a, s)[1]), 1))
BSqrt(a) == IF a = <<>> THEN <<>> ELSE BSqrtFrom(a, BShl(<<1>>, (BitLen(a) + 1) \div 2))

\* q or q + 1: c tells whether what was cut off behind q is less than, equal
\* to or more than half of the last digit of q; a half goes to the even one
NearestEven(q, c) == IF c > 0 \/ (c = 0 /\ BOdd(q)) THEN BAdd(q, <<1>>) ELSE q

BShrCut(n, q, s) == NearestEven(q, BCmp(BSub(n, BShl(q, s)), BShl(<<1>>, s - 1)))

\* the whole number nearest to n / 2^s for s > 0
BShrRound(n, s) == BShrCut(n, BShr(n, s), s)

(***************************************************************************)
(* float64 (the dtype of np.array on Python floats, and Python's float):   *)
(* zero, or m * 2^e with a significand m of exactly 53 binary digits.      *)
(* Every operation returns the float nearest to the exact result, ties to  *)
(* the even significand. Exponents are not limited: the flavor values of   *)
(* the model stay far from overflow and underflow. Negative numbers do not *)
(* occur.                                                                  *)
(***************************************************************************)
SignificandBits == 53

FZero == [m |-> <<>>, e |-> 0]
IsZero(x) == x.m = <<>>

\* a significand that rounding has taken to 54 binary digits loses the last
FRoundUp(q, e) ==
    IF BitLen(q) > SignificandBits THEN [m |-> BShr(q, 1), e |-> e + 1]
    ELSE [m |-> q, e |-> e]

FRoundBits(n, e, s) ==
    IF s <= 0 THEN [m |-> BShl(n, -s), e |-> e + s]
    ELSE FRoundUp(BShrRound(n, s), e + s)

\* the float nearest to n * 2^e, for a natural n > 0
FRound(n, e) == FRoundBits(n, e, BitLen(n) - SignificandBits)

FRoundPair(ne) == FRound(ne[1], ne[2])

FFromInt(n) == IF n = 0 THEN FZero ELSE FRound(BFromInt(n), 0)

\* n1 * 2^e1 + n2 * 2^e2 as <<n, e>>
ExactSum(n1, e1, n2, e2) ==
    IF e1 >= e2 THEN <<BAdd(BShl(n1, e1 - e2), n2), e2>>
    ELSE <<BAdd(n1, BShl(n2, e2 - e1)), e1>>

FAdd(x, y) ==
    IF IsZero(y) THEN x
    ELSE IF IsZero(x) THEN y
    ELSE FRoundPair(ExactSum(x.m, x.e, y.m, y.e))

FMul(x, y) ==
    IF IsZero(x) \/ IsZero(y) THEN FZero ELSE FRound(BMul(x.m, y.m), x.e + y.e)

\* x * y + z with one rounding (a fused multiply-add instruction)
FFma(x, y, z) ==
    IF IsZero(x) \/ IsZero(y) THEN z
    ELSE IF IsZero(z) THEN FMul(x, y)
    ELSE FRoundPair(ExactSum(BMul(x.m, y.m), x.e + y.e, z.m, z.e))

\* twice the quotient or root q, and one more when it is not exact, so that
\* rounding sees on which side of a half the exact value lies
FRoundInexact(q, exact, e) ==
    IF exact THEN FRound(BMulSmall(q, 2), e)
    ELSE FRound(BAdd(BMulSmall(q, 2), <<1>>), e)

FDivRound(qr, e) == FRoundInexact(qr[1], qr[2] = <<>>, e)

\* x / y for y > 0, from 57 or more binary digits of the quotient
FDiv(x, y) ==
    IF IsZero(x) THEN FZero
    ELSE FDivRound(BDivMod(BShl(x.m, SignificandBits + 3), y.m),
                   x.e - y.e - SignificandBits - 4)

FSqrtRound(n, s, e) == FRoundInexact(s, BMul(s, s) = n, e)

FSqrtShifted(n, e) == FSqrtRound(n, BSqrt(n), e)

FSqrtBy(x, k) == FSqrtShifted(BShl(x.m, k), (x.e - k) \div 2 - 1)

\* the square root, the same way: x.e - k is even
FSqrt(x) ==
    IF IsZero(x) THEN FZero
    ELSE FSqrtBy(x, IF x.e % 2 = 0 THEN SignificandBits + 5 ELSE SignificandBits + 6)

\* x < y, x = y, x > y as -1, 0, 1
FCmp(x, y) ==
    IF IsZero(x) THEN (IF IsZero(y) THEN 0 ELSE -1)
    ELSE IF IsZero(y) THEN 1
    ELSE IF x.e < y.e THEN -1
    ELSE IF x.e > y.e THEN 1
    ELSE BCmp(x.m, y.m)

BToInt(a) == Limb(a, 1) + Base * Limb(a, 2)

Round3Of(n, e) == IF e >= 0 THEN BToInt(BShl(n, e)) ELSE BToInt(BShrRound(n, -e))

\* round(x, nd) of a Python float for nd = 3, as a whole number of thousandths:
\* the thousandth nearest to the exact value of x, ties to the even one
Round3(x) == IF IsZero(x) THEN 0 ELSE Round3Of(BMul(x.m, BFromInt(1000)), x.e)

(***************************************************************************)
(* calculate_similarity (lines 470-480). A profile is a dict from flavor   *)
(* keys to whole numbers of hundredths; the value k stands for the float   *)
(* nearest to k/100, which is what parsing the decimal text gives.         *)
(***************************************************************************)
FOne == FFromInt(1)
FlavorValue(k) == FDiv(FFromInt(k), FFromInt(100))

\* lines 473-474: np.array([profile.get(k, 0) for k in keys])
Get(profile, k) == IF k \in DOMAIN profile THEN FlavorValue(profile[k]) ELSE FZero
FlavorVector(profile) ==
    <<Get(profile, "spicy"), Get(profile, "sweet"), Get(profile, "umami"),
      Get(profile, "sour"), Get(profile, "salty")>>

\* the sum of the products xs[i] * ys[i] for i = 1 .. n, added one after the
\* other in index order; the build decides whether a product and the addition
\* that follows are one fused operation or two
RECURSIVE SumProducts(_, _, _, _)
SumProducts(xs, ys, n, fused) ==
    IF n = 0 THEN FZero
    ELSE LET acc == SumProducts(xs, ys, n - 1, fused)
         IN  IF fused THEN FFma(xs[n], ys[n], acc) ELSE FAdd(acc, FMul(xs[n], ys[n]))

\* np.linalg.norm(vec), and the row norm that cosine_similarity divides by
Norm(vec, fused) == FSqrt(SumProducts(vec, vec, Len(vec), fused))

DividedBy(vec, n) ==
    IF IsZero(n) THEN vec
    ELSE <<FDiv(vec[1], n), FDiv(vec[2], n), FDiv(vec[3], n), FDiv(vec[4], n), FDiv(vec[5], n)>>

\* sklearn.preprocessing.normalize: a row is divided by its norm, and left as
\* it is when the norm is zero
Normalized(vec, fused) == DividedBy(vec, Norm(vec, fused))

\* sklearn.metrics.pairwise.cosine_similarity on one row each: both rows are
\* normalized, then multiplied
cosine_similarity(vec1, vec2, fused) ==
    SumProducts(Normalized(vec1, fused), Normalized(vec2, fused), Len(vec1), fused)

\* lines 477-480 without the test of the second norm
VectorSimilarity_firstOnly(vec1, vec2, fused) ==
    IF IsZero(Norm(vec1, fused)) THEN FZero
    ELSE IF IsZero(Norm(vec2, fused)) THEN FOne
    ELSE cosine_similarity(vec1, vec2, fused)

\* lines 477-480
VectorSimilarity(vec1, vec2, fused) ==
    IF IsZero(Norm(vec1, fused)) \/ IsZero(Norm(vec2, fused)) THEN FZero
    ELSE cosine_similarity(vec1, vec2, fused)

calculate_similarity(profile1, profile2, fused) ==
    VectorSimilarity(FlavorVector(profile1), FlavorVector(profile2), fused)

\* profiles with few flavors: equal and proportional ones, ones with no flavor
\* in common, one of zeros and one without any key
ProfilePool ==
    {[spicy |-> 1, sweet |-> 1],
     [spicy |-> 2, sweet |-> 2],
     [spicy |-> 80, umami |-> 55],
     [sweet |-> 90, sour |-> 30, salty |-> 0],
     [spicy |-> 100, sweet |-> 0, umami |-> 0, sour |-> 0, salty |-> 0],
     [salty |-> 50],
     [spicy |-> 0, sweet |-> 0, umami |-> 0, sour |-> 0, salty |-> 0],
     <<>>}

InitSimilarity ==
    /\ sm_profile1 \in ProfilePool
    /\ sm_profile2 \in ProfilePool
    /\ sm_ret = [kind |-> "idle"]
    /\ MenuIdle /\ NormIdle /\ ClassIdle /\ FindIdle /\ AvgIdle /\ LoadIdle /\ RankIdle
    /\ ProfIdle

SimilarityCall ==
    /\ sm_ret.kind = "idle"
    /\ \E fused \in BOOLEAN :
          sm_ret' = [kind |-> "value", fused |-> fused,
                     value |-> calculate_similarity(sm_profile1, sm_profile2, fused)]
    /\ UNCHANGED <<sm_profile1, sm_profile2>>
    /\ UNCHANGED <<menuVars, normVars, classVars, findVars, avgVars, loadVars, rankVars,
                   profVars>>

NextSimilarity == SimilarityCall

SpecSimilarity == InitSimilarity /\ [][NextSimilarity]_vars

(***************************************************************************)
(* get_recommendations (lines 1078-1174), the ranker. The request holds    *)
(* user_profile, menu_dishes and categorized_dishes; df is what            *)
(* load_recipes returned.                                                  *)
(***************************************************************************)
\* lines 1099-1102: the keyword lists of the fallback, shorter than the
\* extractor's
fallback_dessert_keywords ==
    {Chars("cake"), Chars("pie"), Chars("ice cream"), Chars("pudding"), Chars("chocolate"),
     Chars("cookie"), Chars("brownie"), Chars("tart"), Chars("mousse"), Chars("custard"),
     Chars("flan"), Chars("sorbet")}

fallback_appetizer_keywords ==
    {Chars("salad"), Chars("soup"), Chars("dip"), Chars("bruschetta"), Chars("samosa"),
     Chars("spring roll"), Chars("wings"), Chars("nachos"), Chars("quesadilla"),
     Chars("hummus"), Chars("guacamole")}

\* lines 1098-1109
FallbackCategory(dish) ==
    LET dish_lower == StrLower(dish)
    IN  IF AnyIn(fallback_dessert_keywords, dish_lower) THEN "desserts"
        ELSE IF AnyIn(fallback_appetizer_keywords, dish_lower) THEN "appetizer"
        ELSE "mains"

\* an Optional[Dict]: None, or a dict
None == [is_none |-> TRUE, dict |-> <<>>]
Some(dict) == [is_none |-> FALSE, dict |-> dict]

\* lines 1088-1109: None and the empty dict are both false at line 1088
dish_categories(request) ==
    IF ~ request.categorized_dishes.is_none /\ DOMAIN request.categorized_dishes.dict # {}
    THEN request.categorized_dishes.dict
    ELSE [c \in Categories |->
             SelectSeq(request.menu_dishes, LAMBDA dish : FallbackCategory(dish) = c)]

\* lines 1154-1157
IngredientsOf(recipe) ==
    IF recipe.ingredients.type = "str" THEN recipe.ingredients.text
    ELSE recipe.ingredients.value

\* the dataset: ingredients are text as read from the file, flavor_profile is
\* what load_recipes parsed, or still text
Catalog ==
    <<[id |-> 11, name |-> Chars("Chicken Tikka Masala"),
       ingredients |-> Text(<<"chicken", "yogurt", "tomato">>),
       flavor_profile |-> Dict([spicy |-> 80, sweet |-> 10, umami |-> 55, sour |-> 25, salty |-> 40])],
      [id |-> 12, name |-> Chars("Dal Fry"),
       ingredients |-> Text(<<"lentils", "ghee">>),
       flavor_profile |-> Dict([spicy |-> 40, sweet |-> 5, umami |-> 60, sour |-> 10, salty |-> 50])],
      [id |-> 13, name |-> Chars("Masala Dosa"),
       ingredients |-> Text(<<"rice", "potato">>),
       flavor_profile |-> Text(<<Item("spicy", 50), Item("sour", 30), Item("salty", 45)>>)],
      [id |-> 14, name |-> Chars("Garlic Naan"),
       ingredients |-> Dict(<<"flour", "garlic">>),
       flavor_profile |-> Dict([spicy |-> 2, sweet |-> 2, umami |-> 0, sour |-> 0, salty |-> 0])],
      [id |-> 15, name |-> Chars("Plain Rice"),
       ingredients |-> Text(<<"rice">>),
       flavor_profile |-> Dict([spicy |-> 0, sweet |-> 0, umami |-> 0, sour |-> 0, salty |-> 0])],
      [id |-> 16, name |-> Chars("Tomato Soup"),
       ingredients |-> Text(<<"tomato", "cream">>),
       flavor_profile |-> Dict([spicy |-> 10, sweet |-> 30, umami |-> 40, sour |-> 60, salty |-> 35])],
      [id |-> 17, name |-> Chars("Gulab Jamun"),
       ingredients |-> Text(<<"milk", "sugar">>),
       flavor_profile |-> Dict([spicy |-> 0, sweet |-> 95, umami |-> 0, sour |-> 5, salty |-> 0])],
      [id |-> 18, name |-> Chars("Chocolate Brownie"),
       ingredients |-> Text(<<"chocolate", "butter">>),
       flavor_profile |-> Dict(<<>>)]>>

UserProfiles ==
    {[appetizer |-> [spicy |-> 80, sweet |-> 10, umami |-> 55, sour |-> 25, salty |-> 40],
      mains |-> [spicy |-> 80, sweet |-> 10, umami |-> 55, sour |-> 25, salty |-> 40],
      desserts |-> [spicy |-> 0, sweet |-> 0, umami |-> 0, sour |-> 0, salty |-> 0]],
     [appetizer |-> [spicy |-> 0, sweet |-> 0, umami |-> 0, sour |-> 0, salty |-> 0],
      mains |-> [spicy |-> 1, sweet |-> 1, umami |-> 0, sour |-> 0, salty |-> 0],
      desserts |-> [spicy |-> 80, sweet |-> 10, umami |-> 55, sour |-> 25, salty |-> 40]]}

\* line 1151: list.sort(key=..., reverse=True), which keeps items of equal key
\* in their order; item goes behind every item that is not smaller
RECURSIVE InsertDescending(_, _)
InsertDescending(sorted, item) ==
    IF sorted = <<>> THEN <<item>>
    ELSE IF FCmp(Head(sorted).similarity, item.similarity) >= 0
    THEN <<Head(sorted)>> \o InsertDescending(Tail(sorted), item)
    ELSE <<item>> \o sorted

RECURSIVE SortDescending(_, _)
SortDescending(items, n) ==
    IF n = 0 THEN <<>> ELSE InsertDescending(SortDescending(items, n - 1), items[n])

\* line 1153 without the slice
TopFive_all(scored_items) == scored_items

\* line 1153: scored_items[:5]
TopFive(scored_items) ==
    IF Len(scored_items) <= 5 THEN scored_items ELSE SubSeq(scored_items, 1, 5)

\* lines 1165-1172 with the name of the recipe
Entry_recipeName(item, category) ==
    [id |-> item.recipe.id,
     name |-> item.recipe.name,
     ingredients |-> IngredientsOf(item.recipe),
     flavor_profile |-> ProfileOf(item.recipe),
     similarity_score |-> Round3(item.similarity),
     category |-> category]

\* lines 1154-1172; similarity_score in thousandths
Entry(item, category) ==
    [id |-> item.recipe.id,
     name |-> item.name,
     ingredients |-> IngredientsOf(item.recipe),
     flavor_profile |-> ProfileOf(item.recipe),
     similarity_score |-> Round3(item.similarity),
     category |-> category]

\* line 1121 for the dishes of one category, in their order
RECURSIVE Lookups(_, _)
Lookups(dishes, rows) ==
    IF dishes = <<>> THEN <<>>
    ELSE <<[name |-> Head(dishes), found |-> find_recipe_by_name(Head(dishes), rows)]>>
         \o Lookups(Tail(dishes), rows)

\* lines 1122-1124: (menu_dish_name, recipe) for the dishes that have a recipe
MenuDishMappings(lookups) ==
    LET hits == SelectSeq(lookups, LAMBDA l : l.found.kind = "row")
    IN  [i \in DOMAIN hits |-> [name |-> hits[i].name, recipe |-> hits[i].found.row]]

\* line 1151 on the items in the opposite order: descending too, but items of
\* equal key come out last first
Sorted_lastFirst(scored_items) ==
    SortDescending([i \in DOMAIN scored_items |->
                       scored_items[Len(scored_items) + 1 - i]], Len(scored_items))

Sorted(scored_items) == SortDescending(scored_items, Len(scored_items))

\* lines 1139-1151, for one category: (menu_dish_name, recipe, similarity) for
\* every mapping, sorted
ScoredItems(menu_dish_mappings, user_profile_dict, fused) ==
    Sorted([i \in DOMAIN menu_dish_mappings |->
               [name |-> menu_dish_mappings[i].name,
                recipe |-> menu_dish_mappings[i].recipe,
                similarity |-> calculate_similarity(user_profile_dict,
                                   ProfileOf(menu_dish_mappings[i].recipe), fused)]])

\* lines 1153-1172, for one category
Recommended(scored_items, category) ==
    [i \in DOMAIN TopFive(scored_items) |-> Entry(TopFive(scored_items)[i], category)]

\* lines 1118-1121: the lookups of the dishes of every category of the request
RECURSIVE AllLookups(_, _, _)
AllLookups(cats, keys, rows) ==
    IF keys = {} THEN <<>>
    ELSE LET c == CHOOSE k \in keys : TRUE
         IN  (c :> Lookups(cats[c], rows)) @@ AllLookups(cats, keys \ {c}, rows)

\* line 1121 raises re.error; line 1124 raises KeyError for a dish that has a
\* recipe in a category that is none of the three
Raises(lookups) ==
    \E c \in DOMAIN lookups : \E i \in DOMAIN lookups[c] :
        \/ lookups[c][i].found.kind = "error"
        \/ c \notin Categories /\ lookups[c][i].found.kind = "row"

\* line 1134: categorized_menu_dish_mappings[category]
MappingsOf(lookups, category) ==
    IF category \in DOMAIN lookups THEN MenuDishMappings(lookups[category]) ELSE <<>>

\* line 1131
CategoryOrder == <<"appetizer", "mains", "desserts">>

\* lines 1131-1151: the sorted scored_items of every category from the i-th on
RECURSIVE ScoredFrom(_, _, _, _)
ScoredFrom(lookups, user_profile, fused, i) ==
    IF i > Len(CategoryOrder) THEN <<>>
    ELSE (CategoryOrder[i] :> ScoredItems(MappingsOf(lookups, CategoryOrder[i]),
                                          user_profile[CategoryOrder[i]], fused))
         @@ ScoredFrom(lookups, user_profile, fused, i + 1)

\* lines 1153-1174
RecommendScored(scored) ==
    [kind |-> "ok",
     scored |-> scored,
     recommendations |-> [c \in Categories |-> Recommended(scored[c], c)]]

\* lines 1124-1174
RecommendFound(lookups, user_profile, fused) ==
    IF Raises(lookups) THEN [kind |-> "error"]
    ELSE RecommendScored(ScoredFrom(lookups, user_profile, fused, 1))

RecommendCategorized(cats, rows, user_profile, fused) ==
    RecommendFound(AllLookups(cats, DOMAIN cats, rows), user_profile, fused)

get_recommendations(rows, request, fused) ==
    RecommendCategorized(dish_categories(request), rows, request.user_profile, fused)

MaxMains == 2

\* a dish that matches by its words, one that matches by its name and one that
\* is no valid pattern
DishPool ==
    {Chars("chiken tikka"), Chars("dal fry"), Chars("dal (fry")}

LongMenu ==
    <<Chars("Dal Fry"), Chars("chiken tikka"), Chars("Masala Dosa"), Chars("biryani"),
      Chars("Garlic Naan"), Chars("plain rice"), Chars("dal fry"), Chars("Naan")>>

Starters == <<Chars("Tomato Soup"), Chars("Plain Rice")>>
Sweets == <<Chars("gulab jamun"), Chars("kheer"), Chars("Brownie")>>

\* the dict the client sends: the three categories, with or without one more
CategorizedDishes(mains) ==
    {[appetizer |-> Starters, mains |-> mains, desserts |-> Sweets],
     [mains |-> mains],
     [appetizer |-> Starters, mains |-> mains, desserts |-> Sweets, sides |-> <<Chars("biryani")>>],
     [appetizer |-> Starters, mains |-> mains, desserts |-> Sweets, sides |-> <<Chars("Naan")>>]}

Requests ==
    UNION {{[kind |-> "request", user_profile |-> u,
             menu_dishes |-> Starters \o mains \o Sweets, categorized_dishes |-> cd] :
               u \in UserProfiles,
               cd \in {None, Some(<<>>)} \cup {Some(d) : d \in CategorizedDishes(mains)}} :
           mains \in SeqsUpTo(DishPool, MaxMains) \cup {LongMenu}}

InitRank ==
    /\ rk_df = Catalog
    /\ rk_request \in Requests
    /\ rk_ret = [kind |-> "idle"]
    /\ MenuIdle /\ NormIdle /\ ClassIdle /\ FindIdle /\ AvgIdle /\ LoadIdle /\ SimIdle
    /\ ProfIdle

RankCall ==
    /\ rk_request.kind = "request"
    /\ rk_ret.kind = "idle"
    /\ \E fused \in BOOLEAN : rk_ret' = get_recommendations(rk_df, rk_request, fused)
    /\ UNCHANGED <<rk_df, rk_request>>
    /\ UNCHANGED <<menuVars, normVars, classVars, findVars, avgVars, loadVars, simVars,
                   profVars>>

NextRank == RankCall

SpecRank == InitRank /\ [][NextRank]_vars

(***************************************************************************)
(* The process and load_recipes (lines 79-95). The endpoints are plain     *)
(* functions, which the server runs on the threads of a pool; a thread can *)
(* be preempted between any two of the steps below. The module calls       *)
(* load_recipes from endpoints only (lines 677, 729, 789, 824, 1081, 1179).*)
(***************************************************************************)
MaxCalls == 2

\* the endpoints by what they need: process_menu_text (line 1025) works on its
\* argument alone, get_recommendations (line 1079) starts with load_recipes
Endpoints == {"process_menu_text", "get_recommendations"}

InitLoad ==
    /\ csv_at \in {"cwd", "parent", "nowhere"}
    /\ proc = "starting" /\ recipes_df = 0 /\ objs = <<>> /\ reads = 0
    /\ pc = [t \in Threads |-> "idle"] /\ req = [t \in Threads |-> "none"]
    /\ tmp = [t \in Threads |-> 0] /\ ret = [t \in Threads |-> [obj |-> 0]]
    /\ calls = [t \in Threads |-> 0] /\ served = 0 /\ reported = FALSE
    /\ MenuIdle /\ NormIdle /\ ClassIdle /\ FindIdle /\ AvgIdle /\ SimIdle /\ RankIdle
    /\ ProfIdle

LoadFrame ==
    UNCHANGED <<menuVars, normVars, classVars, findVars, avgVars, simVars, rankVars, profVars>>

\* lines 1205-1207: the module is imported (recipes_df = None, line 80) and the
\* server starts; nothing looks for the dataset file
Startup ==
    /\ proc = "starting"
    /\ proc' = "serving"
    /\ UNCHANGED <<csv_at, recipes_df, objs, reads, pc, req, tmp, ret, calls, served, reported>>
    /\ LoadFrame

\* a request is accepted and given to a thread
Accept(t) ==
    /\ proc = "serving" /\ pc[t] = "idle" /\ calls[t] < MaxCalls
    /\ \E endpoint \in Endpoints :
          /\ req' = [req EXCEPT ![t] = endpoint]
          /\ pc' = [pc EXCEPT ![t] = IF endpoint = "get_recommendations" THEN "l84" ELSE "body"]
    /\ calls' = [calls EXCEPT ![t] = @ + 1]
    /\ UNCHANGED <<csv_at, proc, recipes_df, objs, reads, tmp, ret, served, reported>>
    /\ LoadFrame

\* line 84: if recipes_df is None
TestNone(t) ==
    /\ pc[t] = "l84"
    /\ pc' = [pc EXCEPT ![t] = IF recipes_df = 0 THEN "l87" ELSE "l95"]
    /\ UNCHANGED <<csv_at, proc, recipes_df, objs, reads, req, tmp, ret, calls, served, reported>>
    /\ LoadFrame

\* lines 87-90, right-hand side: the path is chosen and pd.read_csv reads the
\* file into a new DataFrame, whose flavor_profile column holds text; without
\* the file read_csv raises FileNotFoundError and the request fails
ReadCsv(t) ==
    /\ pc[t] = "l87"
    /\ IF csv_at = "nowhere"
       THEN /\ reported' = TRUE
            /\ pc' = [pc EXCEPT ![t] = "idle"]
            /\ UNCHANGED <<objs, reads, tmp>>
       ELSE /\ objs' = Append(objs, "text")
            /\ tmp' = [tmp EXCEPT ![t] = Len(objs) + 1]
            /\ reads' = reads + 1
            /\ pc' = [pc EXCEPT ![t] = "l90"]
            /\ UNCHANGED reported
    /\ UNCHANGED <<csv_at, proc, recipes_df, req, ret, calls, served>>
    /\ LoadFrame

\* line 90, the assignment to the global
StoreGlobal(t) ==
    /\ pc[t] = "l90"
    /\ recipes_df' = tmp[t]
    /\ pc' = [pc EXCEPT ![t] = "l92"]
    /\ UNCHANGED <<csv_at, proc, objs, reads, req, tmp, ret, calls, served, reported>>
    /\ LoadFrame

\* lines 92-94: the flavor_profile column of the DataFrame the global names is
\* replaced by its parsed values (values that are no text stay as they are)
ParseColumn(t) ==
    /\ pc[t] = "l92"
    /\ objs' = [objs EXCEPT ![recipes_df] = "parsed"]
    /\ pc' = [pc EXCEPT ![t] = "l95"]
    /\ UNCHANGED <<csv_at, proc, recipes_df, reads, req, tmp, ret, calls, served, reported>>
    /\ LoadFrame

\* line 95: return recipes_df; ret keeps the DataFrame returned and the state
\* of its flavor_profile column at that moment
ReturnDf(t) ==
    /\ pc[t] = "l95"
    /\ ret' = [ret EXCEPT ![t] = [obj |-> recipes_df, column |-> objs[recipes_df]]]
    /\ pc' = [pc EXCEPT ![t] = "body"]
    /\ UNCHANGED <<csv_at, proc, recipes_df, objs, reads, req, tmp, calls, served, reported>>
    /\ LoadFrame

\* the rest of the endpoint, and its response
Respond(t) ==
    /\ pc[t] = "body"
    /\ served' = served + 1
    /\ pc' = [pc EXCEPT ![t] = "idle"]
    /\ UNCHANGED <<csv_at, proc, recipes_df, objs, reads, req, tmp, ret, calls, reported>>
    /\ LoadFrame

NextLoad ==
    \/ Startup
    \/ \E t \in Threads :
          \/ Accept(t) \/ TestNone(t) \/ ReadCsv(t) \/ StoreGlobal(t)
          \/ ParseColumn(t) \/ ReturnDf(t) \/ Respond(t)

SpecLoad == InitLoad /\ [][NextLoad]_vars

(***************************************************************************)
(* The whole development: any one of the calls above                       *)
(***************************************************************************)
(***************************************************************************)
(* The profile endpoints save_user_profile (lines 670-706),                *)
(* update_user_dishes (lines 718-757) and remove_dish_from_profile (lines  *)
(* 759-819) for one user. A row is the favorite_dishes and flavor_profile  *)
(* columns of the user; a request that raises does not reach db.commit(),  *)
(* and what it assigned is discarded with its session (database.py, lines  *)
(* 32-37). Each operator gives the outcomes a request can have: how it     *)
(* ended and the row it leaves.                                            *)
(***************************************************************************)
Stored(favorite_dishes, flavor_profile) ==
    [favorite_dishes |-> favorite_dishes, flavor_profile |-> flavor_profile]

DishInput(name, category) == [name |-> Chars(name), category |-> category]

\* lines 679-680: find_recipe_by_name for every dish, in order
RECURSIVE FavoriteLookups(_, _)
FavoriteLookups(dishes, rows) ==
    IF dishes = <<>> THEN <<>>
    ELSE <<[category |-> Head(dishes).category,
            found |-> find_recipe_by_name(Head(dishes).name, rows)]>>
         \o FavoriteLookups(Tail(dishes), rows)

\* line 680 raises re.error; line 682 raises KeyError for a dish that has a
\* recipe and a category that is none of the three
FavoritesRaise(lookups) ==
    \E i \in DOMAIN lookups :
        \/ lookups[i].found.kind = "error"
        \/ lookups[i].found.kind = "row" /\ lookups[i].category \notin Categories

FoundRows(hits) == [i \in DOMAIN hits |-> hits[i].found.row]

\* lines 673-682: categories[category] after the loop
RecipesOf(lookups, category) ==
    FoundRows(SelectSeq(lookups, LAMBDA l : l.found.kind = "row" /\ l.category = category))

\* lines 685-693: the three averages
UserProfilesOf(lookups) ==
    {[appetizer |-> a, mains |-> m, desserts |-> d] :
        a \in calculate_average_flavor_profile(RecipesOf(lookups, "appetizer")),
        m \in calculate_average_flavor_profile(RecipesOf(lookups, "mains")),
        d \in calculate_average_flavor_profile(RecipesOf(lookups, "desserts"))}

\* lines 679-706 and lines 726-757
SaveFound(row, dishes, lookups) ==
    IF FavoritesRaise(lookups) THEN {[kind |-> "error", row |-> row]}
    ELSE {[kind |-> "ok", row |-> Stored(dishes, Some(p))] : p \in UserProfilesOf(lookups)}

save_user_profile(row, dishes, rows) == SaveFound(row, dishes, FavoriteLookups(dishes, rows))

\* line 726 assigns favorite_dishes before the loop that can raise
update_user_dishes(row, dishes, rows) == SaveFound(row, dishes, FavoriteLookups(dishes, rows))

\* line 776 with the name alone
Keeps_nameOnly(dish, dish_name, category) == dish.name # dish_name

\* line 776: not (dish.get("name") == dish_name and dish.get("category") == category)
Keeps(dish, dish_name, category) == ~ (dish.name = dish_name /\ dish.category = category)

\* lines 788-812 without the test of line 788
Recalculated_always(updated_dishes, lookups) == {Some(p) : p \in UserProfilesOf(lookups)}

\* lines 788-812
Recalculated(updated_dishes, lookups) ==
    IF updated_dishes # <<>> THEN {Some(p) : p \in UserProfilesOf(lookups)} ELSE {None}

\* lines 785-819
RemoveFound(row, updated_dishes, lookups) ==
    IF updated_dishes # <<>> /\ FavoritesRaise(lookups) THEN {[kind |-> "error", row |-> row]}
    ELSE {[kind |-> "ok", row |-> Stored(updated_dishes, profile)] :
             profile \in Recalculated(updated_dishes, lookups)}

\* lines 779-819
RemoveUpdated(row, updated_dishes, rows) ==
    IF Len(updated_dishes) = Len(row.favorite_dishes) THEN {[kind |-> "not_found", row |-> row]}
    ELSE RemoveFound(row, updated_dishes, FavoriteLookups(updated_dishes, rows))

remove_dish_from_profile(row, dish_name, category, rows) ==
    IF row.favorite_dishes = <<>> THEN {[kind |-> "not_found", row |-> row]}
    ELSE RemoveUpdated(row,
             SelectSeq(row.favorite_dishes, LAMBDA dish : Keeps(dish, dish_name, category)),
             rows)

\* the dishes of a request: dishes with a recipe, a dish twice, dishes without
\* a recipe (one name in two categories, one of them none of the three), a name
\* that is no valid pattern, and a dish with a recipe in a category that is
\* none of the three
FavoriteInputs ==
    {<<>>,
     <<DishInput("dal fry", "mains")>>,
     <<DishInput("dal fry", "mains"), DishInput("chiken tikka", "mains")>>,
     <<DishInput("dal fry", "mains"), DishInput("gulab jamun", "desserts"),
       DishInput("dal fry", "mains")>>,
     <<DishInput("kheer", "desserts"), DishInput("kheer", "sides")>>,
     <<DishInput("kheer", "desserts"), DishInput("Tomato Soup", "appetizer"),
       DishInput("kheer", "desserts")>>,
     <<DishInput("dal fry", "mains"), DishInput("dal (fry", "mains")>>,
     <<DishInput("Naan", "sides")>>}

\* dish_name and category of a DELETE request
RemoveInputs ==
    {DishInput("dal fry", "mains"), DishInput("dal fry", "desserts"),
     DishInput("kheer", "desserts"), DishInput("gulab jamun", "desserts"),
     DishInput("biryani", "mains")}

MaxRequests == 3

InitProfile ==
    /\ pf_df = Catalog
    /\ pf_dishes = <<>>         \* line 529
    /\ pf_profile = None        \* database.py, line 24
    /\ pf_ret = [kind |-> "idle"]
    /\ pf_before = Stored(<<>>, None)
    /\ pf_calls = 0
    /\ MenuIdle /\ NormIdle /\ ClassIdle /\ FindIdle /\ AvgIdle /\ LoadIdle /\ SimIdle
    /\ RankIdle

\* the request ends as out says
RequestEnds(op, dish, out) ==
    /\ pf_dishes' = out.row.favorite_dishes
    /\ pf_profile' = out.row.flavor_profile
    /\ pf_ret' = [kind |-> out.kind, op |-> op, dish_name |-> dish.name,
                  category |-> dish.category]
    /\ pf_before' = Stored(pf_dishes, pf_profile)
    /\ pf_calls' = pf_calls + 1
    /\ UNCHANGED pf_df
    /\ UNCHANGED <<menuVars, normVars, classVars, findVars, avgVars, loadVars, simVars,
                   rankVars>>

SaveProfile ==
    /\ pf_df # <<>> /\ pf_calls < MaxRequests
    /\ \E dishes \in FavoriteInputs :
           \E out \in save_user_profile(Stored(pf_dishes, pf_profile), dishes, pf_df) :
               RequestEnds("save", DishInput("", ""), out)

UpdateDishes ==
    /\ pf_df # <<>> /\ pf_calls < MaxRequests
    /\ \E dishes \in FavoriteInputs :
           \E out \in update_user_dishes(Stored(pf_dishes, pf_profile), dishes, pf_df) :
               RequestEnds("update", DishInput("", ""), out)

RemoveDish ==
    /\ pf_df # <<>> /\ pf_calls < MaxRequests
    /\ \E dish \in RemoveInputs :
           \E out \in remove_dish_from_profile(Stored(pf_dishes, pf_profile),
                                               dish.name, dish.category, pf_df) :
               RequestEnds("remove", dish, out)

NextProfile == SaveProfile \/ UpdateDishes \/ RemoveDish

SpecProfile == InitProfile /\ [][NextProfile]_vars

Init ==
    \/ InitMenu \/ InitNormalize \/ InitClassify \/ InitFind \/ InitAverage \/ InitLoad
    \/ InitSimilarity \/ InitRank \/ InitProfile
Next ==
    \/ NextMenu \/ NextNormalize \/ NextClassify \/ NextFind \/ NextAverage \/ NextLoad
    \/ NextSimilarity \/ NextRank \/ NextProfile
Spec == Init /\ [][Next]_vars

(***************************************************************************)
(* Properties of extract_dishes_from_menu, under SpecMenu                  *)
(***************************************************************************)
\* the names that reached the category assignment for category c, in order
EmittedNames(c) ==
    LET idx == {i \in DOMAIN emitted : emitted[i].category = c}
        nth(k) == CHOOSE i \in idx : Cardinality({j \in idx : j < i}) = k - 1
    IN  [k \in 1..Cardinality(idx) |-> emitted[nth(k)].name]

Min(a, b) == IF a < b THEN a ELSE b

\* C1: the menu of section 8 yields appetizer ["Bruschetta"], mains ["Grilled
\* Salmon"], desserts ["Chocolate Cake"], the "- $9.00" suffix being stripped
\* with its hyphen.
C1_ScenarioOutput ==
    (menu_text = ScenarioMenu /\ phase = "done") =>
        categorized_dishes = [c \in Categories |->
            CASE c = "appetizer" -> <<Chars("Bruschetta")>>
              [] c = "mains" -> <<Chars("Grilled Salmon")>>
              [] c = "desserts" -> <<Chars("Chocolate Cake")>>]

\* C2: whatever the menu text, each of the three returned lists has at most 20
\* entries.
C2_CapInvariant ==
    phase = "done" => \A c \in Categories : Len(categorized_dishes[c]) <= 20

\* a returned list that was cut: more than 20 distinct names were found for it
C2_Witness ==
    /\ phase = "done"
    /\ \E c \in Categories :
          /\ Len(categorized_dishes[c]) = 20
          /\ Cardinality({StrLower(n) : n \in Range(EmittedNames(c))}) > 20

\* two lines of different text gave names that are equal when lowercased
RepeatedIn(c) ==
    {StrLower(emitted[i].name) : i \in
        {i \in DOMAIN emitted :
            /\ emitted[i].category = c
            /\ \E j \in DOMAIN emitted :
                  /\ j # i
                  /\ emitted[j].category = c
                  /\ StrLower(emitted[j].name) = StrLower(emitted[i].name)
                  /\ emitted[j].raw # emitted[i].raw}}

Occurrences(list, lowered) == Cardinality({i \in DOMAIN list : StrLower(list[i]) = lowered})

\* C3 as stated: a dish name that is repeated with different casing is in the
\* returned list of its category exactly once.
C3_ExactlyOnce ==
    phase = "done" =>
        \A c \in Categories : \A n \in RepeatedIn(c) :
            Occurrences(categorized_dishes[c], n) = 1

\* C3, amended: each returned list is the sequence of the first occurrences
\* (compared lowercased) of the names found for its category, in the order found,
\* cut after the 20th; so a repeated name is there at most once, as the name its
\* first occurrence gave, and exactly once unless 20 other names precede it.
C3_FirstSeenUpToCap ==
    phase = "done" =>
        \A c \in Categories :
            LET em == EmittedNames(c)
                firsts == {p \in DOMAIN em : \A q \in 1..(p - 1) : StrLower(em[q]) # StrLower(em[p])}
                rank(p) == Cardinality({q \in firsts : q <= p})
            IN  /\ Len(categorized_dishes[c]) = Min(20, Cardinality(firsts))
                /\ \A p \in firsts : rank(p) <= 20 => categorized_dishes[c][rank(p)] = em[p]
                /\ \A i, j \in DOMAIN categorized_dishes[c] :
                      i # j => StrLower(categorized_dishes[c][i]) # StrLower(categorized_dishes[c][j])

\* a name repeated with different casing, returned once
C3_Witness ==
    /\ phase = "done"
    /\ \E c \in Categories : \E n \in RepeatedIn(c) :
          Occurrences(categorized_dishes[c], n) = 1

\* C4: "$9.85", "12.00" and "Price: 8.50" classify as price, and nothing that
\* classifies as price, raw line or cleaned and normalized name, is emitted.
C4_PriceNeverEmitted ==
    /\ is_price_line(Chars("$9.85"))
    /\ is_price_line(Chars("12.00"))
    /\ is_price_line(Chars("Price: 8.50"))
    /\ \A i \in DOMAIN emitted :
          ~ is_price_line(emitted[i].raw) /\ ~ is_price_line(emitted[i].name)
    /\ \A c \in Categories : \A i \in DOMAIN categorized_dishes[c] :
          ~ is_price_line(categorized_dishes[c][i])

\* a menu was processed that holds a price line, a line that classifies as price
\* only once cleaned and normalized, and a dish
C4_Witness ==
    /\ phase = "done"
    /\ emitted # <<>>
    /\ \E i \in DOMAIN lines : is_price_line(Strip(lines[i]))
    /\ \E i \in DOMAIN lines :
          /\ is_dish_name(Strip(lines[i]))
          /\ is_price_line(normalize_dish_name(CleanLine(Strip(lines[i]))))

\* needle occurs in hay
IsInfix(needle, hay) ==
    \E i \in 0..(Len(hay) - Len(needle)) : SubSeq(hay, i + 1, i + Len(needle)) = needle

\* the section a line names: the first of appetizer, mains, desserts one of whose
\* synonyms the lowercased line contains, "None" when it contains none
SectionNamed(line) ==
    LET text == StrLower(line)
        named(syns) == \E syn \in syns : IsInfix(syn, text)
    IN  IF named(appetizer_synonyms) THEN "appetizer"
        ELSE IF named(mains_synonyms) THEN "mains"
        ELSE IF named(dessert_synonyms) THEN "desserts"
        ELSE "None"

\* the section named by the last header among the first n lines, "None" without one
RECURSIVE LastHeader(_, _)
LastHeader(ls, n) ==
    IF n = 0 THEN "None"
    ELSE IF Strip(ls[n]) # <<>> /\ SectionNamed(Strip(ls[n])) # "None"
         THEN SectionNamed(Strip(ls[n]))
         ELSE LastHeader(ls, n - 1)

\* C19: a non-blank line whose lowercased text contains a section synonym is a
\* header: it is never emitted as a dish, and once it is processed
\* current_category is the first of appetizer, mains, desserts that it names.
C19_HeaderLines ==
    /\ \A k \in DOMAIN emitted : SectionNamed(emitted[k].raw) = "None"
    /\ (phase = "loop" /\ pos > 1 /\ Strip(lines[pos - 1]) # <<>>
           /\ SectionNamed(Strip(lines[pos - 1])) # "None")
          => current_category = SectionNamed(Strip(lines[pos - 1]))

\* "Main Street Burger", "Sweet Corn Soup" and "Starters and Mains" were read
\* as headers and two other lines of the same menu became dishes
C19_Witness ==
    /\ menu_text = HeaderMenu /\ phase = "done"
    /\ current_category = "appetizer"
    /\ Len(emitted) >= 2

\* C20: an accepted dish line goes to exactly one category: that of the most
\* recent header above it when there is one, whatever its own keywords, and
\* otherwise desserts for a dessert keyword, else appetizer for an appetizer
\* keyword, else mains; current_category, once set, is never unset.
C20_CategoryAssignment ==
    /\ [](phase \in {"loop", "done"} => current_category = LastHeader(lines, pos - 1))
    /\ [][(phase = "loop" /\ current_category # "None") => current_category' # "None"]_vars
    /\ [][(phase = "loop" /\ emitted' # emitted) =>
            LET dish == emitted'[Len(emitted')]
                header == LastHeader(lines, pos - 1)
                text == StrLower(dish.name)
                target == IF header # "None" THEN header
                          ELSE IF \E kw \in dessert_keywords : IsInfix(kw, text) THEN "desserts"
                          ELSE IF \E kw \in appetizer_keywords : IsInfix(kw, text) THEN "appetizer"
                          ELSE "mains"
            IN  /\ emitted' = Append(emitted, dish)
                /\ dish.category = target
                /\ \E i \in DOMAIN categorized_dishes'[target] :
                       categorized_dishes'[target][i] = dish.name
                /\ \A c \in Categories \ {target} :
                       categorized_dishes'[c] = categorized_dishes[c]]_vars

\* a dish with a dessert keyword went to the appetizers, under their header
C20_Witness ==
    /\ current_category = "appetizer"
    /\ \E k \in DOMAIN emitted :
          /\ emitted[k].category = "appetizer"
          /\ AnyIn(dessert_keywords, StrLower(emitted[k].name))

(***************************************************************************)
(* Properties of is_dish_name, under SpecClassify                          *)
(***************************************************************************)
\* C5: a line whose lowercased text equals a reserved keyword is rejected by
\* is_dish_name, and a line that only holds a keyword among other text is not
\* rejected by the keyword test.
C5_ExactKeywordRejected ==
    cl_dish # "unset" =>
        LET line_lower == StrLower(Strip(cl_arg))
        IN  /\ line_lower \in skip_keywords => cl_dish = "False"
            /\ (line_lower \notin skip_keywords /\ AnyIn(skip_keywords, line_lower))
                  => ~ KeywordReject(line_lower)

(***************************************************************************)
(* Properties of normalize_dish_name, under SpecNormalize                  *)
(***************************************************************************)
\* C6: normalize(normalize(x)) = normalize(x) for every string x.
C6_Idempotent ==
    Len(nm_out) = 2 => nm_out[2] = nm_out[1]

\* the same, for the arguments made of ASCII characters only
Idempotent_ASCII ==
    (Len(nm_out) = 2 /\ \A i \in DOMAIN nm_arg : nm_arg[i] # "U0130") => nm_out[2] = nm_out[1]

\* C7: every word of the uppercase-exception set (USA, UK, NYC, BBQ, AI, CEO),
\* whatever its casing in the argument and its position, is fully uppercased in
\* the result.
C7_UppercaseExceptions ==
    Len(nm_out) >= 1 =>
        \A w \in Range(Split(nm_out[1])) :
            StrUpper(w) \in uppercase_words => w = StrUpper(w)

(***************************************************************************)
(* Properties of find_recipe_by_name, under SpecFind                       *)
(***************************************************************************)
IsSubstring(needle, hay) == Contains(hay, needle)

\* C8: the three tiers apply in order and the first success wins: a row whose
\* name equals the query, case aside, makes the first such row the result;
\* failing that, a row whose name contains the query as a substring, case
\* aside, makes the first such row the result; the word-overlap tier gives the
\* result only when neither of those finds a row.
C8_TiersInOrder ==
    fr_ret.kind # "idle" =>
        LET query == Strip(StrLower(fr_name))
            equal == {i \in DOMAIN df : StrLower(df[i].name) = query}
            holding == {i \in DOMAIN df : IsSubstring(query, StrLower(df[i].name))}
        IN  /\ equal # {} => fr_ret.kind = "row" /\ fr_ret.row = df[SetMin(equal)]
            /\ (equal = {} /\ holding # {})
                  => fr_ret.kind = "row" /\ fr_ret.row = df[SetMin(holding)]
            /\ (fr_ret.kind # "error" /\ fr_ret.tier = "words") => equal = {} /\ holding = {}

\* the score of row i against the query, as the fraction Shared(i)/Larger(i)
Shared(i) ==
    Cardinality(WordSet(Strip(StrLower(fr_name))) \cap WordSet(StrLower(df[i].name)))
Larger(i) ==
    Max(Cardinality(WordSet(Strip(StrLower(fr_name)))),
        Cardinality(WordSet(StrLower(df[i].name))))
FirstMaximal ==
    SetMin({i \in DOMAIN df : \A j \in DOMAIN df : Shared(j) * Larger(i) <= Shared(i) * Larger(j)})
\* the first row of maximal score when that score is above 0.3, nothing otherwise
ScoredResult ==
    IF 10 * Shared(FirstMaximal) > 3 * Larger(FirstMaximal)
    THEN fr_ret.kind = "row" /\ fr_ret.row = df[FirstMaximal]
    ELSE fr_ret.kind = "none"

\* C9: when no name equals the query and no name contains it as a substring,
\* case aside, each row scores |words(query) \cap words(name)| /
\* max(|words(query)|, |words(name)|), and the first row of maximal score is
\* returned iff that score is above 0.3, nothing otherwise; "chiken tikka" with
\* "Chicken Tikka Masala" in the dataset is answered by this tier with a row.
C9_WordOverlap ==
    fr_ret.kind # "idle" =>
        LET query == Strip(StrLower(fr_name))
            equal == {i \in DOMAIN df : StrLower(df[i].name) = query}
            holding == {i \in DOMAIN df : IsSubstring(query, StrLower(df[i].name))}
        IN  /\ (equal = {} /\ holding = {}) => ScoredResult
            /\ (/\ fr_name = Chars("chiken tikka")
                /\ \E i \in DOMAIN df : df[i].name = Chars("Chicken Tikka Masala"))
                  => fr_ret.kind = "row" /\ fr_ret.tier = "words"

\* what line 204 returns is the scored result
WordTierScoring ==
    (fr_ret.kind \in {"row", "none"} /\ fr_ret.tier = "words") => ScoredResult

\* the word-overlap tier returned a row that shares the best score with a later row
WordTierTie ==
    /\ fr_ret.kind = "row" /\ fr_ret.tier = "words"
    /\ fr_name = Chars("chiken tikka")
    /\ \E i, j \in DOMAIN df :
          /\ i < j /\ fr_ret.row = df[i]
          /\ df[i].name = Chars("Chicken Tikka Masala")
          /\ df[j].name = Chars("Chicken Tikka Masala")

(***************************************************************************)
(* Properties of calculate_average_flavor_profile, under SpecAverage       *)
(***************************************************************************)
\* the value of component k in a recipe, 0 when the recipe has none
Component(recipe, k) ==
    LET p == ProfileOf(recipe) IN IF k \in DOMAIN p THEN p[k] ELSE 0

RECURSIVE Total(_, _)
Total(recipes, k) ==
    IF recipes = <<>> THEN 0 ELSE Component(Head(recipes), k) + Total(Tail(recipes), k)

\* C10: for no recipe the result is zero in all five components; otherwise each
\* component is the mean over all the recipes, a recipe without the component
\* counting as 0, rounded to 2 decimals (a hundredth at most half a hundredth
\* away from the mean).
C10_AverageProfile ==
    av_ret.kind = "value" =>
        /\ DOMAIN av_ret.profile = Range(FlavorKeys)
        /\ \A k \in Range(FlavorKeys) :
              IF av_recipes = <<>> THEN av_ret.profile[k] = 0
              ELSE 2 * Abs(Len(av_recipes) * av_ret.profile[k] - Total(av_recipes, k))
                      <= Len(av_recipes)

\* an average over several recipes, one of them without a sweet component, whose
\* sweet mean is no whole number of hundredths
C10_Witness ==
    /\ av_ret.kind = "value"
    /\ Len(av_recipes) >= 2
    /\ \E i \in DOMAIN av_recipes : "sweet" \notin DOMAIN ProfileOf(av_recipes[i])
    /\ Total(av_recipes, "sweet") % Len(av_recipes) # 0

(***************************************************************************)
(* Properties of the process and load_recipes, under SpecLoad              *)
(***************************************************************************)
\* C16: whatever the interleaving of the threads that call load_recipes while
\* recipes_df is None, the dataset file is read and parsed once at most.
C16_LoadedOnce ==
    reads <= 1

\* C17: once recipes_df is set, what load_recipes returns to any caller is a
\* dataset whose flavor_profile column is parsed, and the datasets returned do
\* not change any more.
C17_ReadOnlyOnceVisible ==
    \A t \in Threads :
        ret[t].obj # 0 => ret[t].column = "parsed" /\ objs[ret[t].obj] = ret[t].column

\* C18: without the dataset file the failure is reported at startup: no request
\* is accepted or answered before it is.
C18_MissingFileFatalAtStartup ==
    (csv_at = "nowhere" /\ ~ reported) =>
        /\ served = 0
        /\ \A t \in Threads : calls[t] = 0

(***************************************************************************)
(* Properties of calculate_similarity, under SpecSimilarity                *)
(***************************************************************************)
\* C15: for flavor vectors without negative components the similarity is at
\* least 0.0 and at most 1.0.
C15_SimilarityBounded ==
    sm_ret.kind = "value" =>
        /\ FCmp(sm_ret.value, FZero) >= 0
        /\ FCmp(sm_ret.value, FOne) <= 0

(***************************************************************************)
(* Properties of get_recommendations, under SpecRank                       *)
(***************************************************************************)
\* the dishes of category c of the request, as line 1119 sees them
DishesOf(c) ==
    LET cats == dish_categories(rk_request)
    IN  IF c \in DOMAIN cats THEN cats[c] ELSE <<>>

\* how many of them have a recipe
MatchedCount(c) ==
    Cardinality({i \in DOMAIN DishesOf(c) :
                    find_recipe_by_name(DishesOf(c)[i], rk_df).kind = "row"})

\* C11: each category list returned is in non-increasing order of
\* similarity_score and holds min(5, number of that category's dishes that
\* matched a recipe) entries.
C11_TopFiveSorted ==
    rk_ret.kind = "ok" =>
        \A c \in Categories :
            LET list == rk_ret.recommendations[c]
            IN  /\ \A i \in 1..(Len(list) - 1) :
                       list[i].similarity_score >= list[i + 1].similarity_score
                /\ Len(list) = Min(5, MatchedCount(c))

\* more than five dishes of mains matched, five were returned, not all alike
C11_Witness ==
    /\ rk_ret.kind = "ok"
    /\ MatchedCount("mains") > 5
    /\ Len(rk_ret.recommendations["mains"]) = 5
    /\ rk_ret.recommendations["mains"][1].similarity_score
           > rk_ret.recommendations["mains"][5].similarity_score

\* C12: the name of every returned entry is a menu dish string of the request
\* in that category, and id, ingredients and flavor_profile are those of the
\* recipe found for that string.
C12_MenuNameRecipeData ==
    rk_ret.kind = "ok" =>
        \A c \in Categories : \A i \in DOMAIN rk_ret.recommendations[c] :
            LET entry == rk_ret.recommendations[c][i]
            IN  /\ entry.category = c
                /\ \E j \in DOMAIN DishesOf(c) :
                       LET found == find_recipe_by_name(DishesOf(c)[j], rk_df)
                       IN  /\ entry.name = DishesOf(c)[j]
                           /\ found.kind = "row"
                           /\ entry.id = found.row.id
                           /\ entry.ingredients = IngredientsOf(found.row)
                           /\ entry.flavor_profile = ProfileOf(found.row)

\* an entry whose name is not the name of its recipe, even ignoring case
C12_Witness ==
    /\ rk_ret.kind = "ok"
    /\ \E i \in DOMAIN rk_ret.recommendations["mains"] :
           LET entry == rk_ret.recommendations["mains"][i]
           IN  /\ entry.name = Chars("chiken tikka")
               /\ entry.id = 11
               /\ \E r \in Range(rk_df) : r.id = entry.id /\ StrLower(r.name) # StrLower(entry.name)

ZeroMagnitude(profile) ==
    \A k \in Range(FlavorKeys) : k \notin DOMAIN profile \/ profile[k] = 0

\* C14: a candidate whose flavor vector, or whose user's category vector, has
\* zero magnitude gets the similarity 0.0 exactly; it is scored like the
\* others, and where it is among the first five it is returned with the score
\* 0.0.
C14_ZeroVectorScoresZero ==
    rk_ret.kind = "ok" =>
        \A c \in Categories :
            /\ Len(rk_ret.scored[c]) = MatchedCount(c)
            /\ \A i \in DOMAIN rk_ret.scored[c] :
                   LET item == rk_ret.scored[c][i]
                   IN  (\/ ZeroMagnitude(rk_request.user_profile[c])
                        \/ ZeroMagnitude(ProfileOf(item.recipe)))
                       => /\ IsZero(item.similarity)
                          /\ i <= 5 => /\ rk_ret.recommendations[c][i].name = item.name
                                       /\ rk_ret.recommendations[c][i].similarity_score = 0

\* a recipe of zero magnitude returned to a user whose vector is not, behind a
\* candidate of positive score
C14_Witness ==
    /\ rk_ret.kind = "ok"
    /\ ~ ZeroMagnitude(rk_request.user_profile["appetizer"])
    /\ Len(rk_ret.recommendations["appetizer"]) = 2
    /\ rk_ret.recommendations["appetizer"][1].similarity_score > 0
    /\ rk_ret.recommendations["appetizer"][2].similarity_score = 0
    /\ ZeroMagnitude(rk_ret.recommendations["appetizer"][2].flavor_profile)

\* the dishes of category c that have a recipe, as the request lists them
EncounterOrder(c) ==
    SelectSeq(DishesOf(c), LAMBDA dish : find_recipe_by_name(dish, rk_df).kind = "row")

Names(items) == [i \in DOMAIN items |-> items[i].name]

\* C21: in every category, the candidates of one similarity stand in the sorted
\* list in the order in which the request lists them, and the entries returned
\* are the first five of the sorted list, so that of tied candidates the ones
\* listed first are kept.
C21_TiesKeepEncounterOrder ==
    rk_ret.kind = "ok" =>
        \A c \in Categories :
            LET sorted == rk_ret.scored[c]
                SimilarityOf(dish) ==
                    sorted[CHOOSE i \in DOMAIN sorted : sorted[i].name = dish].similarity
            IN  /\ \A k \in DOMAIN sorted :
                       Names(SelectSeq(sorted,
                                 LAMBDA item : item.similarity = sorted[k].similarity))
                           = SelectSeq(EncounterOrder(c),
                                 LAMBDA dish : SimilarityOf(dish) = sorted[k].similarity)
                /\ Names(rk_ret.recommendations[c])
                       = Names(SubSeq(sorted, 1, Min(5, Len(sorted))))

\* two dishes of mains with different names and the same similarity, the fifth
\* and the sixth of the sorted list: the one listed first is returned
C21_Witness ==
    /\ rk_ret.kind = "ok"
    /\ Len(rk_ret.scored["mains"]) > 5
    /\ rk_ret.scored["mains"][5].similarity = rk_ret.scored["mains"][6].similarity
    /\ rk_ret.scored["mains"][5].name # rk_ret.scored["mains"][6].name
    /\ rk_ret.recommendations["mains"][5].name = rk_ret.scored["mains"][5].name
    /\ \E p, q \in DOMAIN EncounterOrder("mains") :
           /\ p < q
           /\ EncounterOrder("mains")[p] = rk_ret.scored["mains"][5].name
           /\ EncounterOrder("mains")[q] = rk_ret.scored["mains"][6].name

(***************************************************************************)
(* find_recipe_by_name on an empty query, under SpecFind                   *)
(***************************************************************************)
\* C24: for a query that is empty after strip() and a dataset that has rows and
\* no empty name, find_recipe_by_name returns the first row of the dataset, out
\* of the substring tier, which matches every row.
C24_EmptyQueryFirstRow ==
    (/\ fr_ret.kind # "idle"
     /\ Strip(fr_name) = <<>>
     /\ df # <<>>
     /\ \A i \in DOMAIN df : df[i].name # <<>>)
        => /\ fr_ret = [kind |-> "row", tier |-> "partial", row |-> df[1]]
           /\ \A i \in DOMAIN df : ReSearch(PatCompile(Strip(StrLower(fr_name))),
                                            StrLower(df[i].name))

\* a query of blanks on a dataset of several rows
C24_Witness ==
    /\ fr_name = Chars("  ")
    /\ Len(df) > 1
    /\ fr_ret.kind = "row"
    /\ fr_ret.row = df[1]

(***************************************************************************)
(* Properties of the profile endpoints, under SpecProfile                  *)
(***************************************************************************)
\* C22: after any sequence of save-profile, update-dishes and remove-dish
\* requests on one user with a fixed dataset, whenever the stored
\* favorite_dishes list is non-empty the stored flavor_profile is, per
\* category, the average profile of the recipes found for the stored favorite
\* dishes of that category; and after a remove that empties favorite_dishes
\* the stored flavor_profile is unset.
C22_ProfileMatchesFavorites ==
    /\ pf_dishes # <<>> =>
           /\ ~ pf_profile.is_none
           /\ pf_profile.dict \in UserProfilesOf(FavoriteLookups(pf_dishes, pf_df))
    /\ (pf_ret.kind = "ok" /\ pf_ret.op = "remove" /\ pf_dishes = <<>>) =>
           pf_profile = None

\* a remove has left favorite dishes behind and a flavor_profile that differs
\* from the one stored before it
C22_Witness ==
    /\ pf_ret.kind = "ok" /\ pf_ret.op = "remove"
    /\ pf_dishes # <<>>
    /\ ~ pf_before.flavor_profile.is_none
    /\ pf_profile # pf_before.flavor_profile

\* a remove has emptied favorite_dishes and unset the flavor_profile
C22_Emptied ==
    /\ pf_ret.kind = "ok" /\ pf_ret.op = "remove"
    /\ pf_dishes = <<>> /\ pf_profile = None
    /\ ~ pf_before.flavor_profile.is_none

\* the stored entries that have both the name and the category of the request
Targets(favorite_dishes, dish_name, category) ==
    {i \in DOMAIN favorite_dishes :
        favorite_dishes[i].name = dish_name /\ favorite_dishes[i].category = category}

Without(favorite_dishes, gone) ==
    [i \in 1..Len(SelectSeq([j \in DOMAIN favorite_dishes |-> j], LAMBDA j : j \notin gone))
        |-> favorite_dishes[SelectSeq([j \in DOMAIN favorite_dishes |-> j],
                                      LAMBDA j : j \notin gone)[i]]]

\* C23: remove_dish_from_profile fails with a not-found error and leaves the
\* user's favorite_dishes and flavor_profile unchanged when the user has no
\* favorite dishes or when no stored dish has both the given name and the
\* given category; on success it removes every stored entry with that name and
\* category and no other entry.
C23_RemoveNotFoundOrExact ==
    (pf_ret.kind # "idle" /\ pf_ret.op = "remove") =>
        IF Targets(pf_before.favorite_dishes, pf_ret.dish_name, pf_ret.category) = {}
        THEN /\ pf_ret.kind = "not_found"
             /\ Stored(pf_dishes, pf_profile) = pf_before
        ELSE /\ pf_ret.kind # "not_found"
             /\ pf_ret.kind = "ok" =>
                    pf_dishes = Without(pf_before.favorite_dishes,
                                    Targets(pf_before.favorite_dishes, pf_ret.dish_name,
                                            pf_ret.category))

\* a remove has taken two entries out of three
C23_Witness ==
    /\ pf_ret.kind = "ok" /\ pf_ret.op = "remove"
    /\ Len(pf_before.favorite_dishes) = 3 /\ Len(pf_dishes) = 1

\* a remove has failed on a user with favorite dishes of the same name in
\* another category
C23_NotFound ==
    /\ pf_ret.kind = "not_found" /\ pf_ret.op = "remove"
    /\ \E i \in DOMAIN pf_dishes :
           pf_dishes[i].name = pf_ret.dish_name /\ pf_dishes[i].category # pf_ret.category

====
